---- MODULE Spec2Model ----
(***************************************************************************)
(* Reactive multi-API LLM routing engine: SmartAPIManager (usage tracker,  *)
(* health/cooldown manager, backend selector) and LLMRoutingEngine         *)
(* (route_and_execute).  Texts (error messages, keywords, backend names)   *)
(* are sequences of one-character strings, so that lower() and the         *)
(* substring tests of the code are computed, not assumed.  Time is in      *)
(* whole seconds.                                                          *)
(***************************************************************************)
EXTENDS Integers, Sequences, FiniteSets, TLC

VARIABLES now, api_key, usage_stats, pc, chunk_analysis, emergency_mode,
          max_retries, attempt_count, tried_apis, selected_api, result,
          invoked, resets, at_start, lastOp, steps, threads, last_recorded

vars == <<now, api_key, usage_stats, pc, chunk_analysis, emergency_mode,
          max_retries, attempt_count, tried_apis, selected_api, result,
          invoked, resets, at_start, lastOp, steps, threads, last_recorded>>

routeVars == <<pc, chunk_analysis, emergency_mode, max_retries, attempt_count,
               tried_apis, selected_api, result, invoked, resets, at_start, threads,
               last_recorded>>

---------------------------------------------------------------------------
(* Bounds of the exploration *)

\* time.time() in the initial state: seconds since the epoch, a date in 2023
\* (the hours since the epoch exceed the weight 1000 of a failure in the score)
StartTime == 1700000000

\* calls made on the manager and clock advances, in the manager's specification
MaxSteps == 4

\* failures recorded on the manager before the routing call starts
MaxPriorCalls == 1

\* record_api_call calls made by the request threads, all together
MaxThreadCalls == 2

\* route_and_execute calls started by the request threads, all together
MaxRoutingCalls == 2

\* characters in a chunk handed to the analyzer
MaxChunkLen == 4

\* route_and_execute(..., max_retries: int = 3)
DefaultMaxRetries == 3

---------------------------------------------------------------------------
(* Text primitives: str.lower(), `in`, startswith *)

UpperChars == <<"A","B","C","D","E","F","G","H","I","J","K","L","M","N","O","P","Q","R","S","T","U","V","W","X","Y","Z">>

LowerChars == <<"a","b","c","d","e","f","g","h","i","j","k","l","m","n","o","p","q","r","s","t","u","v","w","x","y","z">>

DigitChars == <<"0","1","2","3","4","5","6","7","8","9">>

LowerChar(c) ==
  IF \E i \in 1..26 : UpperChars[i] = c
  THEN LowerChars[CHOOSE i \in 1..26 : UpperChars[i] = c]
  ELSE c

Lower(s) == [i \in 1..Len(s) |-> LowerChar(s[i])]

Contains(s, k) ==
  \E i \in 1..(Len(s) - Len(k) + 1) : SubSeq(s, i, i + Len(k) - 1) = k

StartsWith(s, k) == Len(s) >= Len(k) /\ SubSeq(s, 1, Len(k)) = k

ContainsAny(s, ks) == \E k \in ks : Contains(s, k)

IsDigit(c) == \E i \in 1..10 : DigitChars[i] = c

DigitValue(c) == (CHOOSE i \in 1..10 : DigitChars[i] = c) - 1

\* int() of the longest run of digits of s that starts at position i
RECURSIVE DigitsFrom(_, _, _)
DigitsFrom(s, i, acc) ==
  IF i <= Len(s) /\ IsDigit(s[i])
  THEN DigitsFrom(s, i + 1, acc * 10 + DigitValue(s[i]))
  ELSE acc

\* re.search(r'retry.after.?(\d+)', s) matching at position i: the value of
\* group 1, or -1 when there is no match at i.  `.?` is greedy: it takes one
\* character whenever a digit still follows it.
RetryMatchAt(s, i) ==
  LET j == i + 11 IN
  IF /\ i + 10 <= Len(s)
     /\ SubSeq(s, i, i + 4) = <<"r", "e", "t", "r", "y">>
     /\ SubSeq(s, i + 6, i + 10) = <<"a", "f", "t", "e", "r">>
  THEN IF j + 1 <= Len(s) /\ IsDigit(s[j + 1]) THEN DigitsFrom(s, j + 1, 0)
       ELSE IF j <= Len(s) /\ IsDigit(s[j]) THEN DigitsFrom(s, j, 0)
       ELSE -1
  ELSE -1

\* the leftmost match of the regular expression, or -1
RetryAfterSeconds(s) ==
  IF \E i \in 1..Len(s) : RetryMatchAt(s, i) >= 0
  THEN RetryMatchAt(s, CHOOSE i \in 1..Len(s) :
                           /\ RetryMatchAt(s, i) >= 0
                           /\ \A h \in 1..(i - 1) : RetryMatchAt(s, h) < 0)
  ELSE -1

---------------------------------------------------------------------------
(* SmartAPIManager.api_configs *)

Backends == {"google_primary", "google_secondary", "groq", "together_ai", "openrouter"}

\* insertion order of the api_configs dict
ApiOrder == <<"google_primary", "google_secondary", "groq", "together_ai", "openrouter">>

ApiNameText ==
  [b \in Backends |->
     CASE b = "google_primary"   -> <<"g", "o", "o", "g", "l", "e", "_", "p", "r", "i", "m", "a", "r", "y">>
       [] b = "google_secondary" -> <<"g", "o", "o", "g", "l", "e", "_", "s", "e", "c", "o", "n", "d", "a", "r", "y">>
       [] b = "groq"             -> <<"g", "r", "o", "q">>
       [] b = "together_ai"      -> <<"t", "o", "g", "e", "t", "h", "e", "r", "_", "a", "i">>
       [] b = "openrouter"       -> <<"o", "p", "e", "n", "r", "o", "u", "t", "e", "r">>]

api_configs ==
  [b \in Backends |->
     CASE b = "google_primary"   -> [delay_between_calls |-> 4, model |-> "gemini-1.5-flash", priority |-> 1, supports_indic |-> TRUE, provider |-> "google"]
       [] b = "google_secondary" -> [delay_between_calls |-> 4, model |-> "gemini-1.5-flash", priority |-> 2, supports_indic |-> TRUE, provider |-> "google"]
       [] b = "groq"             -> [delay_between_calls |-> 1, model |-> "llama-3.1-8b-instant", priority |-> 3, supports_indic |-> FALSE, provider |-> "groq"]
       [] b = "together_ai"      -> [delay_between_calls |-> 2, model |-> "meta-llama/Meta-Llama-3.1-70B-Instruct-Turbo", priority |-> 4, supports_indic |-> FALSE, provider |-> "together"]
       [] b = "openrouter"       -> [delay_between_calls |-> 3, model |-> "meta-llama/llama-3.1-8b-instruct:free", priority |-> 5, supports_indic |-> FALSE, provider |-> "openrouter"]]

\* api.startswith('google')
IsGoogle(b) == StartsWith(ApiNameText[b], <<"g", "o", "o", "g", "l", "e">>)

\* Python's None (a text is a sequence of one-character strings)
None == <<"None">>

\* Python's None where the name of a backend is expected
NoApi == "None"

\* truth value of an optional text: neither None nor ""
Truthy(m) == m # None /\ m # <<>>

APIUsageStats ==
  [calls_made |-> 0, successful_calls |-> 0, failed_calls |-> 0,
   last_call_time |-> 0, last_error |-> None, is_available |-> TRUE,
   rate_limit_reset_time |-> 0, consecutive_failures |-> 0]

---------------------------------------------------------------------------
(* Error texts *)

RATE_LIMIT_KEYWORDS ==
  { <<"4", "2", "9">>, <<"r", "a", "t", "e", " ", "l", "i", "m", "i", "t">>, <<"q", "u", "o", "t", "a">>, <<"e", "x", "c", "e", "e", "d", "e", "d">>, <<"t", "o", "o", " ", "m", "a", "n", "y", " ", "r", "e", "q", "u", "e", "s", "t", "s">>,
    <<"r", "a", "t", "e", "_", "l", "i", "m", "i", "t", "_", "e", "x", "c", "e", "e", "d", "e", "d">>, <<"q", "u", "o", "t", "a", "_", "e", "x", "c", "e", "e", "d", "e", "d">>, <<"l", "i", "m", "i", "t", " ", "e", "x", "c", "e", "e", "d", "e", "d">> }

AUTH_KEYWORDS ==
  { <<"a", "p", "i", " ", "k", "e", "y">>, <<"a", "u", "t", "h", "e", "n", "t", "i", "c", "a", "t", "i", "o", "n">>, <<"u", "n", "a", "u", "t", "h", "o", "r", "i", "z", "e", "d">>, <<"4", "0", "1">>, <<"4", "0", "3">>, <<"i", "n", "v", "a", "l", "i", "d", " ", "k", "e", "y">> }

TEMPORARY_KEYWORDS ==
  { <<"5", "0", "0">>, <<"5", "0", "2">>, <<"5", "0", "3">>, <<"5", "0", "4">>, <<"t", "i", "m", "e", "o", "u", "t">>, <<"c", "o", "n", "n", "e", "c", "t", "i", "o", "n">>, <<"s", "e", "r", "v", "i", "c", "e", " ", "u", "n", "a", "v", "a", "i", "l", "a", "b", "l", "e">> }

SWITCH_KEYWORDS ==
  { <<"q", "u", "o", "t", "a">>, <<"e", "x", "c", "e", "e", "d", "e", "d">>, <<"4", "2", "9">>, <<"r", "a", "t", "e", " ", "l", "i", "m", "i", "t">>, <<"b", "i", "l", "l", "i", "n", "g">>, <<"q", "u", "o", "t", "a", "_", "e", "x", "c", "e", "e", "d", "e", "d">>, <<"i", "n", "s", "u", "f", "f", "i", "c", "i", "e", "n", "t", "_", "q", "u", "o", "t", "a">> }

RETRYABLE_KEYWORDS ==
  { <<"t", "i", "m", "e", "o", "u", "t">>, <<"c", "o", "n", "n", "e", "c", "t", "i", "o", "n">>, <<"n", "e", "t", "w", "o", "r", "k">>, <<"5", "0", "2">>, <<"5", "0", "3">>, <<"5", "0", "4">> }

\* what a provider SDK call raises, str(e)
ProviderErrors ==
  { <<"i", "n", "s", "u", "f", "f", "i", "c", "i", "e", "n", "t", "_", "q", "u", "o", "t", "a">>,
    <<"5", "0", "0", " ", "i", "n", "t", "e", "r", "n", "a", "l", " ", "s", "e", "r", "v", "e", "r", " ", "e", "r", "r", "o", "r">>,
    <<"5", "0", "3", " ", "S", "e", "r", "v", "i", "c", "e", " ", "T", "e", "m", "p", "o", "r", "a", "r", "i", "l", "y", " ", "U", "n", "a", "v", "a", "i", "l", "a", "b", "l", "e">> }

\* error_message arguments of record_api_call made by other callers
DirectMessages ==
  { None,
    <<"4", "2", "9", " ", "r", "a", "t", "e", " ", "l", "i", "m", "i", "t", " ", "e", "x", "c", "e", "e", "d", "e", "d">>,
    <<"5", "0", "3", " ", "S", "e", "r", "v", "i", "c", "e", " ", "T", "e", "m", "p", "o", "r", "a", "r", "i", "l", "y", " ", "U", "n", "a", "v", "a", "i", "l", "a", "b", "l", "e">>,
    <<"A", "u", "t", "h", "e", "n", "t", "i", "c", "a", "t", "i", "o", "n", " ", "f", "a", "i", "l", "e", "d", ":", " ", "I", "n", "v", "a", "l", "i", "d", " ", "A", "P", "I", " ", "k", "e", "y">>,
    <<"u", "n", "e", "x", "p", "e", "c", "t", "e", "d", " ", "f", "a", "i", "l", "u", "r", "e">> }

\* failure texts that fall in one category, in two at once, or in none
ClassifiedMessages ==
  { <<"4", "2", "9", " ", "r", "a", "t", "e", " ", "l", "i", "m", "i", "t", " ", "e", "x", "c", "e", "e", "d", "e", "d">>,
    <<"4", "0", "3", " ", "F", "o", "r", "b", "i", "d", "d", "e", "n", ":", " ", "q", "u", "o", "t", "a", " ", "e", "x", "c", "e", "e", "d", "e", "d">>,
    <<"A", "u", "t", "h", "e", "n", "t", "i", "c", "a", "t", "i", "o", "n", " ", "f", "a", "i", "l", "e", "d", ":", " ", "I", "n", "v", "a", "l", "i", "d", " ", "A", "P", "I", " ", "k", "e", "y">>,
    <<"4", "0", "1", " ", "U", "n", "a", "u", "t", "h", "o", "r", "i", "z", "e", "d", ":", " ", "c", "o", "n", "n", "e", "c", "t", "i", "o", "n", " ", "r", "e", "f", "u", "s", "e", "d">>,
    <<"5", "0", "3", " ", "S", "e", "r", "v", "i", "c", "e", " ", "T", "e", "m", "p", "o", "r", "a", "r", "i", "l", "y", " ", "U", "n", "a", "v", "a", "i", "l", "a", "b", "l", "e">>,
    <<"u", "n", "e", "x", "p", "e", "c", "t", "e", "d", " ", "f", "a", "i", "l", "u", "r", "e">> }

\* the f-string prefix each adapter puts before str(e)
AdapterPrefix ==
  [b \in Backends |->
     CASE b = "groq"        -> <<"G", "R", "O", "Q", " ", "A", "P", "I", " ", "e", "r", "r", "o", "r", ":", " ">>
       [] b = "together_ai" -> <<"T", "o", "g", "e", "t", "h", "e", "r", " ", "A", "I", " ", "e", "r", "r", "o", "r", ":", " ">>
       [] b = "openrouter"  -> <<"O", "p", "e", "n", "R", "o", "u", "t", "e", "r", " ", "e", "r", "r", "o", "r", ":", " ">>
       [] OTHER             -> <<"G", "o", "o", "g", "l", "e", " ", "A", "P", "I", " ", "e", "r", "r", "o", "r", ":", " ">>]

EmptyResponseError ==
  [b \in Backends |->
     CASE b = "groq"        -> <<"E", "m", "p", "t", "y", " ", "r", "e", "s", "p", "o", "n", "s", "e", " ", "f", "r", "o", "m", " ", "G", "R", "O", "Q">>
       [] b = "together_ai" -> <<"E", "m", "p", "t", "y", " ", "r", "e", "s", "p", "o", "n", "s", "e", " ", "f", "r", "o", "m", " ", "T", "o", "g", "e", "t", "h", "e", "r", " ", "A", "I">>
       [] b = "openrouter"  -> <<"E", "m", "p", "t", "y", " ", "r", "e", "s", "p", "o", "n", "s", "e", " ", "f", "r", "o", "m", " ", "O", "p", "e", "n", "R", "o", "u", "t", "e", "r">>
       [] OTHER             -> <<"E", "m", "p", "t", "y", " ", "r", "e", "s", "p", "o", "n", "s", "e", " ", "f", "r", "o", "m", " ", "G", "o", "o", "g", "l", "e", " ", "A", "P", "I">>]

\* every text that can reach the manager or the engine
ErrorTexts ==
  (DirectMessages \ {None})
    \cup { AdapterPrefix[b] \o e : b \in Backends, e \in ProviderErrors }
    \cup { EmptyResponseError[b] : b \in Backends }
    \cup { AdapterPrefix[b] : b \in Backends }
    \cup ClassifiedMessages

---------------------------------------------------------------------------
(* Health & cooldown manager: SmartAPIManager *)

\* error_lower = error_message.lower(), tested against each keyword list
MatchesRateLimit == [m \in ErrorTexts |-> ContainsAny(Lower(m), RATE_LIMIT_KEYWORDS)]

MatchesAuth == [m \in ErrorTexts |-> ContainsAny(Lower(m), AUTH_KEYWORDS)]

MatchesTemporary == [m \in ErrorTexts |-> ContainsAny(Lower(m), TEMPORARY_KEYWORDS)]

HasRetryAfter == [m \in ErrorTexts |-> Contains(Lower(m), <<"r", "e", "t", "r", "y", "-", "a", "f", "t", "e", "r">>)]

RetrySeconds == [m \in ErrorTexts |-> RetryAfterSeconds(Lower(m))]

\* cooldown of a rate-limit error: parsed retry-after + 10, or per provider
RateLimitCooldown(api_name, error_message) ==
  IF HasRetryAfter[error_message]
  THEN IF RetrySeconds[error_message] >= 0
       THEN RetrySeconds[error_message] + 10
       ELSE 300
  ELSE IF Contains(ApiNameText[api_name], <<"g", "o", "o", "g", "l", "e">>) THEN 70
       ELSE IF Contains(ApiNameText[api_name], <<"g", "r", "o", "q">>) THEN 90
       ELSE 180

\* variant: the authentication keywords are tested before the rate-limit
\* keywords, and the count of failures before the transient keywords
ErrorCategory_otherOrder(s, error_message) ==
  IF MatchesAuth[error_message] THEN "auth"
  ELSE IF MatchesRateLimit[error_message] THEN "rate_limit"
  ELSE IF s.consecutive_failures >= 3 THEN "too_many_failures"
  ELSE IF MatchesTemporary[error_message] THEN "temporary"
  ELSE "unknown"

\* the branch of _handle_api_error taken; s is the record after the increment
ErrorCategory(s, error_message) ==
  IF MatchesRateLimit[error_message] THEN "rate_limit"
  ELSE IF MatchesAuth[error_message] THEN "auth"
  ELSE IF MatchesTemporary[error_message] THEN "temporary"
  ELSE IF s.consecutive_failures >= 3 THEN "too_many_failures"
  ELSE "unknown"

CooldownSeconds(s, api_name, error_message) ==
  LET c == ErrorCategory(s, error_message) IN
  CASE c = "rate_limit"        -> RateLimitCooldown(api_name, error_message)
    [] c = "auth"              -> 3600
    [] c = "temporary"         -> 120
    [] c = "too_many_failures" -> 300
    [] OTHER                   -> 60

\* variant: the end of the cooldown is stored but the backend is not marked
\* unavailable
HandleApiError_keepsAvailable(s, api_name, error_message, t) ==
  [s EXCEPT !.rate_limit_reset_time = t + CooldownSeconds(s, api_name, error_message)]

\* _handle_api_error: every branch marks the backend unavailable
HandleApiError(s, api_name, error_message, t) ==
  [s EXCEPT !.is_available = FALSE,
            !.rate_limit_reset_time = t + CooldownSeconds(s, api_name, error_message)]

\* variant: the cooldown is over only after rate_limit_reset_time (> for >=)
IsCurrentlyAvailable_strict(s, t) ==
  IF ~s.is_available
  THEN t > s.rate_limit_reset_time
  ELSE TRUE

\* the value _is_api_currently_available returns at time t
IsCurrentlyAvailable(s, t) ==
  IF ~s.is_available
  THEN t >= s.rate_limit_reset_time
  ELSE TRUE

\* variant: re-enabling leaves consecutive_failures as it is
AfterAvailabilityRead_keepsFailures(s, t) ==
  IF ~s.is_available /\ t >= s.rate_limit_reset_time
  THEN [s EXCEPT !.is_available = TRUE]
  ELSE s

\* variant: re-enabling also forgets the error that caused the cooldown
AfterAvailabilityRead_clearsError(s, t) ==
  IF ~s.is_available /\ t >= s.rate_limit_reset_time
  THEN [s EXCEPT !.is_available = TRUE, !.consecutive_failures = 0, !.last_error = None]
  ELSE s

\* the record _is_api_currently_available leaves behind (lazy re-enable)
AfterAvailabilityRead(s, t) ==
  IF ~s.is_available /\ t >= s.rate_limit_reset_time
  THEN [s EXCEPT !.is_available = TRUE, !.consecutive_failures = 0]
  ELSE s

\* variant: a success does not mark the backend available again
RecordSuccess_keepsUnavailable(s, t) ==
  [s EXCEPT !.calls_made = @ + 1,
            !.last_call_time = t,
            !.successful_calls = @ + 1,
            !.consecutive_failures = 0,
            !.last_error = None]

RecordSuccess(s, t) ==
  [s EXCEPT !.calls_made = @ + 1,
            !.last_call_time = t,
            !.successful_calls = @ + 1,
            !.consecutive_failures = 0,
            !.last_error = None,
            !.is_available = TRUE]

RecordFailure(s, api_name, error_message, t) ==
  LET s1 == [s EXCEPT !.calls_made = @ + 1,
                      !.last_call_time = t,
                      !.failed_calls = @ + 1,
                      !.consecutive_failures = @ + 1,
                      !.last_error = error_message]
  IN IF Truthy(error_message)
     THEN HandleApiError(s1, api_name, error_message, t)
     ELSE s1

\* record_api_call on the record of api_name
RecordApiCallOn(s, api_name, success, error_message, t) ==
  IF success THEN RecordSuccess(s, t)
  ELSE RecordFailure(s, api_name, error_message, t)

EmergencyResetOn(s) ==
  [s EXCEPT !.is_available = TRUE,
            !.last_error = None,
            !.consecutive_failures = 0,
            !.rate_limit_reset_time = 0]

\* variant: the reset leaves every record as it is
ForceEnableAll_noop(us) == us

\* force_enable_all_apis: emergency_reset of every record of usage_stats
ForceEnableAll(us) == [b \in Backends |-> EmergencyResetOn(us[b])]

\* sequence helpers for Python lists
RECURSIVE FilterSeq(_, _)
FilterSeq(seq, keep) ==
  IF seq = <<>> THEN <<>>
  ELSE IF Head(seq) \in keep THEN <<Head(seq)>> \o FilterSeq(Tail(seq), keep)
  ELSE FilterSeq(Tail(seq), keep)

SeqToSet(seq) == { seq[i] : i \in 1..Len(seq) }

\* list.sort(key=priority): stable insertion into an ascending list
RECURSIVE InsertByPriority(_, _)
InsertByPriority(sorted, b) ==
  IF sorted = <<>> THEN <<b>>
  ELSE IF api_configs[Head(sorted)].priority <= api_configs[b].priority
       THEN <<Head(sorted)>> \o InsertByPriority(Tail(sorted), b)
       ELSE <<b>> \o sorted

RECURSIVE SortByPriority(_)
SortByPriority(seq) ==
  IF seq = <<>> THEN <<>>
  ELSE InsertByPriority(SortByPriority(SubSeq(seq, 1, Len(seq) - 1)), seq[Len(seq)])

\* variant: the credential is not looked at
AvailableApis_ignoresKey(us, keys, t) ==
  SortByPriority(FilterSeq(ApiOrder,
      { b \in Backends : IsCurrentlyAvailable(us[b], t) }))

\* _get_available_apis: the list returned, given who holds a credential
AvailableApis(us, keys, t) ==
  SortByPriority(FilterSeq(ApiOrder,
      { b \in Backends : keys[b] /\ IsCurrentlyAvailable(us[b], t) }))

\* _get_available_apis: usage_stats afterwards (credential-less backends are
\* skipped before the availability read)
AfterGetAvailableApis(us, keys, t) ==
  [b \in Backends |-> IF keys[b] THEN AfterAvailabilityRead(us[b], t) ELSE us[b]]

\* get_usage_summary reads the availability of every record
AfterGetUsageSummary(us, t) ==
  [b \in Backends |-> AfterAvailabilityRead(us[b], t)]

UsageSummary(us, t) ==
  [b \in Backends |->
     [calls_made |-> us[b].calls_made,
      successful_calls |-> us[b].successful_calls,
      failed_calls |-> us[b].failed_calls,
      consecutive_failures |-> AfterAvailabilityRead(us[b], t).consecutive_failures,
      is_available |-> IsCurrentlyAvailable(us[b], t),
      cooldown_remaining_seconds |->
         IF ~IsCurrentlyAvailable(us[b], t) /\ us[b].rate_limit_reset_time > t
         THEN us[b].rate_limit_reset_time - t ELSE 0,
      last_error |-> us[b].last_error]]

---------------------------------------------------------------------------
(* Backend selector *)

\* score of _choose_least_used_api, times 3600 to stay in the integers:
\* consecutive_failures * 1000 + (now - last_call_time) / 3600
Score(us, b, t) == us[b].consecutive_failures * 1000 * 3600 + (t - us[b].last_call_time)

\* variant: the scores are computed over every record of usage_stats, not
\* over the list passed in
ChooseLeastUsedApi_scoresEveryRecord(us, api_list, t) ==
  IF api_list = <<>> THEN NoApi
  ELSE IF Len(api_list) = 1 THEN api_list[1]
  ELSE ApiOrder[CHOOSE i \in 1..Len(ApiOrder) :
                  /\ \A j \in 1..Len(ApiOrder) : Score(us, ApiOrder[i], t) <= Score(us, ApiOrder[j], t)
                  /\ \A j \in 1..(i - 1) : Score(us, ApiOrder[j], t) > Score(us, ApiOrder[i], t)]

\* _choose_least_used_api: first element of the stable ascending sort
ChooseLeastUsedApi(us, api_list, t) ==
  IF api_list = <<>> THEN NoApi
  ELSE IF Len(api_list) = 1 THEN api_list[1]
  ELSE api_list[CHOOSE i \in 1..Len(api_list) :
                  /\ \A j \in 1..Len(api_list) : Score(us, api_list[i], t) <= Score(us, api_list[j], t)
                  /\ \A j \in 1..(i - 1) : Score(us, api_list[j], t) > Score(us, api_list[i], t)]

GoogleOf(api_list) == FilterSeq(api_list, { b \in Backends : IsGoogle(b) })

PowerfulOf(api_list) == FilterSeq(api_list, {"together_ai", "groq"})

\* variant: the Indic-script branch is missing
SelectBestFromRemaining_noScriptBranch(us, remaining_apis, analysis, t) ==
  IF remaining_apis = <<>> THEN NoApi
  ELSE IF (analysis.priority = "high" \/ analysis.complexity = "complex")
          /\ GoogleOf(remaining_apis) # <<>>
       THEN ChooseLeastUsedApi(us, GoogleOf(remaining_apis), t)
  ELSE IF (analysis.priority = "high" \/ analysis.complexity = "complex")
          /\ PowerfulOf(remaining_apis) # <<>>
       THEN ChooseLeastUsedApi(us, PowerfulOf(remaining_apis), t)
  ELSE ChooseLeastUsedApi(us, remaining_apis, t)

\* LLMRoutingEngine._select_best_from_remaining
SelectBestFromRemaining(us, remaining_apis, analysis, t) ==
  IF remaining_apis = <<>> THEN NoApi
  ELSE IF analysis.has_indic_script /\ GoogleOf(remaining_apis) # <<>>
       THEN ChooseLeastUsedApi(us, GoogleOf(remaining_apis), t)
  ELSE IF (analysis.priority = "high" \/ analysis.complexity = "complex")
          /\ GoogleOf(remaining_apis) # <<>>
       THEN ChooseLeastUsedApi(us, GoogleOf(remaining_apis), t)
  ELSE IF (analysis.priority = "high" \/ analysis.complexity = "complex")
          /\ PowerfulOf(remaining_apis) # <<>>
       THEN ChooseLeastUsedApi(us, PowerfulOf(remaining_apis), t)
  ELSE ChooseLeastUsedApi(us, remaining_apis, t)

\* _smart_balance_google_apis
SmartBalanceGoogleApis(us, google_apis) ==
  LET p == us["google_primary"]
      s == us["google_secondary"]
      primary == IF "google_primary" \in SeqToSet(google_apis) THEN "google_primary" ELSE google_apis[1]
      secondary == IF "google_secondary" \in SeqToSet(google_apis) THEN "google_secondary"
                   ELSE IF Len(google_apis) > 1 THEN google_apis[2] ELSE google_apis[1]
  IN IF Len(google_apis) = 1 THEN google_apis[1]
     ELSE IF p.consecutive_failures < s.consecutive_failures THEN primary
     ELSE IF s.consecutive_failures < p.consecutive_failures THEN secondary
     ELSE IF p.last_call_time < s.last_call_time THEN primary
     ELSE secondary

\* SmartAPIManager.get_best_api, on the list _get_available_apis returned
BestApi(us, available_apis, analysis, t) ==
  IF available_apis = <<>> THEN NoApi
  ELSE IF analysis.has_indic_script
       THEN IF GoogleOf(available_apis) # <<>>
            THEN ChooseLeastUsedApi(us, GoogleOf(available_apis), t)
            ELSE available_apis[1]
  ELSE IF (analysis.priority = "high" \/ analysis.complexity = "complex")
          /\ GoogleOf(available_apis) # <<>>
       THEN ChooseLeastUsedApi(us, GoogleOf(available_apis), t)
  ELSE IF (analysis.priority = "high" \/ analysis.complexity = "complex")
          /\ PowerfulOf(available_apis) # <<>>
       THEN ChooseLeastUsedApi(us, PowerfulOf(available_apis), t)
  ELSE IF analysis.priority = "medium"
       THEN IF Len(GoogleOf(available_apis)) > 1
            THEN SmartBalanceGoogleApis(us, GoogleOf(available_apis))
            ELSE IF GoogleOf(available_apis) # <<>> THEN GoogleOf(available_apis)[1]
            ELSE ChooseLeastUsedApi(us, available_apis, t)
  ELSE ChooseLeastUsedApi(us, available_apis, t)

\* ChunkComplexityAnalyzer._determine_priority
DeterminePriority(has_indic_script, complexity, technical_score) ==
  IF has_indic_script THEN "critical"
  ELSE IF complexity = "complex" \/ technical_score >= 7 THEN "high"
  ELSE IF complexity = "medium" THEN "medium"
  ELSE "low"

\* the has_indic_script / complexity / priority triples analyze_chunk returns
ChunkAnalyses ==
  { [has_indic_script |-> h, complexity |-> c, priority |-> DeterminePriority(h, c, ts)] :
      h \in BOOLEAN, c \in {"simple", "medium", "complex"}, ts \in {0, 7} }

---------------------------------------------------------------------------
(* Backend adapters: LLMRoutingEngine._execute_with_api *)

\* what the provider call does: answers, answers with nothing, or raises e
Outcomes ==
  { [kind |-> "ok", e |-> <<>>], [kind |-> "empty", e |-> <<>>] }
    \cup { [kind |-> "raise", e |-> e] : e \in ProviderErrors }

\* the "api_used" each adapter writes in its result
AdapterApiUsed(api_name) ==
  IF StartsWith(ApiNameText[api_name], <<"g", "o", "o", "g", "l", "e">>) THEN api_name
  ELSE IF api_name = "groq" THEN "groq"
  ELSE IF api_name = "together_ai" THEN "together_ai"
  ELSE "openrouter"

\* a name that is not a key of api_configs and does not start with "google"
UnknownApi == "azure"

UnknownApiError == <<"U", "n", "k", "n", "o", "w", "n", " ", "A", "P", "I", ":", " ", "a", "z", "u", "r", "e">>

\* variant: the adapters have no except clause and _execute_with_api none
\* either, so that what the provider call raises leaves the function
ExecuteWithApi_noExcept(api_name, outcome, analysis) ==
  CASE api_name \notin Backends ->
         [success |-> FALSE, error |-> UnknownApiError]
    [] outcome.kind = "ok" ->
         [success |-> TRUE, content |-> "text", api_used |-> AdapterApiUsed(api_name),
          model |-> api_configs[api_name].model, analysis |-> analysis]
    [] outcome.kind = "empty" ->
         [success |-> FALSE, error |-> EmptyResponseError[api_name],
          api_used |-> AdapterApiUsed(api_name)]
    [] OTHER ->
         [exception |-> outcome.e]

\* the value returned: a result dict in every case (a record with the field
\* exception would stand for an exception leaving the function)
ExecuteWithApi(api_name, outcome, analysis) ==
  CASE api_name \notin Backends ->
         [success |-> FALSE, error |-> UnknownApiError]
    [] outcome.kind = "ok" ->
         [success |-> TRUE, content |-> "text", api_used |-> AdapterApiUsed(api_name),
          model |-> api_configs[api_name].model, analysis |-> analysis]
    [] outcome.kind = "empty" ->
         [success |-> FALSE, error |-> EmptyResponseError[api_name],
          api_used |-> AdapterApiUsed(api_name)]
    [] OTHER ->
         [success |-> FALSE, error |-> AdapterPrefix[api_name] \o outcome.e,
          api_used |-> AdapterApiUsed(api_name), analysis |-> analysis]

\* LLMRoutingEngine._should_retry_error
ShouldRetryTable ==
  [m \in ErrorTexts |->
     IF ContainsAny(Lower(m), SWITCH_KEYWORDS) THEN FALSE
     ELSE IF ContainsAny(Lower(m), RETRYABLE_KEYWORDS) THEN TRUE
     ELSE FALSE]

\* variant: the quota / rate-limit branch answers as the retryable branch does
ShouldRetryError_quotaRetried(error_message) ==
  IF ~Truthy(error_message) THEN FALSE
  ELSE \/ ContainsAny(Lower(error_message), SWITCH_KEYWORDS)
       \/ ContainsAny(Lower(error_message), RETRYABLE_KEYWORDS)

ShouldRetryError(error_message) ==
  IF ~Truthy(error_message) THEN FALSE
  ELSE ShouldRetryTable[error_message]

---------------------------------------------------------------------------
(* State machine *)

NoResult == [success |-> FALSE, error |-> <<"p", "e", "n", "d", "i", "n", "g">>]

NoOp == [op |-> "init", api |-> "-", ret |-> FALSE]

\* the request threads that can be inside the manager at once
Threads == {1, 2}

\* a thread that is not inside record_api_call
IdleThread == [pc |-> "idle", api |-> NoApi, success |-> FALSE, error_message |-> None, reg |-> 0]

\* no routing call in progress, given which backends hold a credential
\* (api_configs[...]['key']) and the usage records
InitWith(credentials, stats) ==
  /\ now = StartTime
  /\ api_key = [b \in Backends |-> b \in credentials]
  /\ usage_stats = stats
  /\ pc = "idle"
  /\ chunk_analysis = [has_indic_script |-> FALSE, complexity |-> "medium", priority |-> "medium"]
  /\ emergency_mode = FALSE
  /\ max_retries = DefaultMaxRetries
  /\ attempt_count = 0
  /\ tried_apis = {}
  /\ selected_api = NoApi
  /\ result = NoResult
  /\ invoked = <<>>
  /\ resets = 0
  /\ at_start = [emergency_mode |-> FALSE, unavailable |-> {}]
  /\ lastOp = NoOp
  /\ steps = 0
  /\ threads = [t \in Threads |-> IdleThread]
  /\ last_recorded = stats

\* _initialize_usage_stats, run by the constructor
InitialUsageStats == [b \in Backends |-> APIUsageStats]

\* one more of the counted steps
Budget(n) == steps < n /\ steps' = steps + 1

\* the moments at which some cooldown ends
Deadlines == { usage_stats[b].rate_limit_reset_time : b \in Backends }

\* time.time() moves on to t
Tick(t) ==
  /\ t > now
  /\ now' = t
  /\ lastOp' = [op |-> "tick", api |-> "-", ret |-> FALSE]
  /\ UNCHANGED <<api_key, usage_stats>>
  /\ UNCHANGED routeVars

\* SmartAPIManager._is_api_currently_available(api_name)
IsApiCurrentlyAvailable(api_name) ==
  /\ usage_stats' = [usage_stats EXCEPT ![api_name] = AfterAvailabilityRead(@, now)]
  /\ lastOp' = [op |-> "is_available", api |-> api_name,
                ret |-> IsCurrentlyAvailable(usage_stats[api_name], now)]
  /\ UNCHANGED <<now, api_key, steps>>
  /\ UNCHANGED routeVars

\* SmartAPIManager.get_available_apis()
GetAvailableApis ==
  /\ usage_stats' = AfterGetAvailableApis(usage_stats, api_key, now)
  /\ lastOp' = [op |-> "get_available_apis", api |-> "-",
                ret |-> AvailableApis(usage_stats, api_key, now)]
  /\ UNCHANGED <<now, api_key, steps>>
  /\ UNCHANGED routeVars

\* SmartAPIManager.get_usage_summary()
GetUsageSummary ==
  /\ usage_stats' = AfterGetUsageSummary(usage_stats, now)
  /\ lastOp' = [op |-> "get_usage_summary", api |-> "-",
                ret |-> UsageSummary(usage_stats, now)]
  /\ UNCHANGED <<now, api_key, steps>>
  /\ UNCHANGED routeVars

\* the parameters in the signature of SmartAPIManager._get_available_apis
GetAvailableApisParameters == {"self"}

\* a call passing keyword argument k to _get_available_apis is accepted only
\* if the signature has a parameter of that name; otherwise it raises
\* TypeError before the body runs
AcceptsKeyword(k) == k \in GetAvailableApisParameters

\* LLMRoutingEngine.get_routing_stats(): the dict display evaluates
\* get_usage_summary(), len(api_configs), _get_available_apis() and then
\* _get_available_apis(emergency_mode=True), in that order
GetRoutingStats ==
  /\ LET us1 == AfterGetUsageSummary(usage_stats, now)
         us2 == AfterGetAvailableApis(us1, api_key, now)
     IN /\ usage_stats' = us2
        /\ lastOp' = [op |-> "get_routing_stats", api |-> "-",
                      ret |-> IF AcceptsKeyword("emergency_mode")
                              THEN [api_manager_stats |-> UsageSummary(usage_stats, now),
                                    routing_engine_info |->
                                      [total_apis_configured |-> Cardinality(Backends),
                                       available_apis |-> Len(AvailableApis(us1, api_key, now)),
                                       emergency_mode_apis |-> Len(AvailableApis(us2, api_key, now))]]
                              ELSE [exception |-> <<"T", "y", "p", "e", "E", "r", "r", "o", "r">>]]
  /\ UNCHANGED <<now, api_key, steps>>
  /\ UNCHANGED routeVars

\* SmartAPIManager.get_best_api(chunk_analysis)
GetBestApi(analysis) ==
  /\ usage_stats' = AfterGetAvailableApis(usage_stats, api_key, now)
  /\ lastOp' = [op |-> "get_best_api", api |-> "-", analysis |-> analysis,
                available |-> AvailableApis(usage_stats, api_key, now),
                ret |-> BestApi(AfterGetAvailableApis(usage_stats, api_key, now),
                                AvailableApis(usage_stats, api_key, now), analysis, now)]
  /\ UNCHANGED <<now, api_key, steps>>
  /\ UNCHANGED routeVars

\* SmartAPIManager.record_api_call(api_name, success, error_message), called
\* by code other than the routing engine
RecordApiCall(api_name, success, error_message) ==
  /\ usage_stats' = [usage_stats EXCEPT
                       ![api_name] = RecordApiCallOn(@, api_name, success, error_message, now)]
  /\ lastOp' = [op |-> IF success THEN "record_success" ELSE "record_failure",
                api |-> api_name, ret |-> error_message]
  /\ UNCHANGED <<now, api_key>>
  /\ UNCHANGED routeVars

\* SmartAPIManager.emergency_reset(api_name)
EmergencyReset(api_name) ==
  /\ usage_stats' = [usage_stats EXCEPT ![api_name] = EmergencyResetOn(@)]
  /\ lastOp' = [op |-> "emergency_reset", api |-> api_name, ret |-> FALSE]
  /\ UNCHANGED <<now, api_key>>
  /\ UNCHANGED routeVars

\* SmartAPIManager.force_enable_all_apis()
ForceEnableAllApis ==
  /\ usage_stats' = ForceEnableAll(usage_stats)
  /\ lastOp' = [op |-> "force_enable_all_apis", api |-> "-", ret |-> FALSE]
  /\ UNCHANGED <<now, api_key>>
  /\ UNCHANGED routeVars

\* LLMRoutingEngine._select_best_from_remaining(remaining_apis, chunk_analysis)
SelectBest(remaining_apis, analysis) ==
  /\ lastOp' = [op |-> "select_best", api |-> "-", analysis |-> analysis,
                available |-> remaining_apis,
                ret |-> SelectBestFromRemaining(usage_stats, remaining_apis, analysis, now)]
  /\ UNCHANGED <<now, api_key, usage_stats, steps>>
  /\ UNCHANGED routeVars

\* SmartAPIManager._choose_least_used_api(api_list)
ChooseLeastUsed(api_list) ==
  /\ lastOp' = [op |-> "choose_least_used", api |-> "-", available |-> api_list,
                ret |-> ChooseLeastUsedApi(usage_stats, api_list, now)]
  /\ UNCHANGED <<now, api_key, usage_stats, steps>>
  /\ UNCHANGED routeVars

---------------------------------------------------------------------------
(* LLMRoutingEngine.route_and_execute, one step per stretch between awaits *)

\* the backends whose invocation failed in the latest routing call
FailedApis == { invoked[i].api : i \in { k \in 1..Len(invoked) : ~invoked[k].success } }

\* the call is made: lines 62-67
RouteStart(analysis, em, mr) ==
  /\ pc = "idle"
  /\ chunk_analysis' = analysis
  /\ emergency_mode' = em
  /\ max_retries' = mr
  /\ attempt_count' = 0
  /\ tried_apis' = {}
  /\ selected_api' = NoApi
  /\ result' = NoResult
  /\ invoked' = <<>>
  /\ resets' = 0
  /\ at_start' = [emergency_mode |-> em,
                  unavailable |-> { b \in Backends : ~IsCurrentlyAvailable(usage_stats[b], now) },
                  failed_before |-> FailedApis]
  /\ last_recorded' = usage_stats
  /\ pc' = "loop"
  /\ lastOp' = [op |-> "route_start", api |-> "-", ret |-> FALSE]
  /\ UNCHANGED <<now, api_key, usage_stats, steps, threads>>

\* variant: the backends already tried are not filtered out
RemainingApis_ignoresTried(us, keys, tried, t) == AvailableApis(us, keys, t)

\* remaining_apis = [api for api in available_apis if api not in tried_apis]
RemainingApis(us, keys, tried, t) ==
  FilterSeq(AvailableApis(us, keys, t), Backends \ tried)

\* variant: the loop admits one iteration too many
WhileCondition_le(count, limit) == count <= limit

\* line 69: while attempt_count < max_retries
WhileCondition(count, limit) == count < limit

\* variant: a success does not end the call
PcAfterCall_continuesOnSuccess(is_success, should_retry, count, limit) ==
  IF should_retry /\ count + 1 < limit THEN "pause" ELSE "loop"

\* where the call goes on after lines 117-138: return, sleep(2) and loop, or loop
PcAfterCall(is_success, should_retry, count, limit) ==
  IF is_success THEN "done"
  ELSE IF should_retry /\ count + 1 < limit THEN "pause"
  ELSE "loop"

\* variant: the selected backend is not remembered
TriedAfter_forgets(tried, api_name) == tried

\* line 92: tried_apis.add(selected_api)
TriedAfter(tried, api_name) == tried \cup {api_name}

\* variant: the reset is made whenever nothing remains, whatever emergency_mode
NeedsEmergencyReset_always(remaining_apis, em) == remaining_apis = <<>>

\* lines 74-76: `if not remaining_apis:` and `if not emergency_mode:`
NeedsEmergencyReset(remaining_apis, em) == remaining_apis = <<>> /\ ~em

\* the loop head up to the first await: lines 69-95
RouteSelect ==
  /\ pc = "loop"
  /\ LET us1 == AfterGetAvailableApis(usage_stats, api_key, now)
         remaining1 == RemainingApis(usage_stats, api_key, tried_apis, now)
         reset == NeedsEmergencyReset(remaining1, emergency_mode)
         us2 == IF reset THEN ForceEnableAll(us1) ELSE us1
         remaining2 == IF reset THEN RemainingApis(us2, api_key, tried_apis, now) ELSE remaining1
         us3 == IF reset THEN AfterGetAvailableApis(us2, api_key, now) ELSE us2
         choice == SelectBestFromRemaining(us3, remaining2, chunk_analysis, now)
     IN IF ~WhileCondition(attempt_count, max_retries)
        THEN /\ result' = [success |-> FALSE, error |-> <<"A", "l", "l", " ", "A", "P", "I", "s", " ", "f", "a", "i", "l", "e", "d">>,
                           analysis |-> chunk_analysis, tried_apis |-> tried_apis,
                           attempts_made |-> attempt_count]
             /\ pc' = "done"
             /\ lastOp' = [op |-> "route_return", api |-> "-", ret |-> FALSE]
             /\ UNCHANGED <<usage_stats, emergency_mode, tried_apis, selected_api, resets>>
        ELSE /\ usage_stats' = us3
             /\ emergency_mode' = (emergency_mode \/ reset)
             /\ resets' = IF reset THEN resets + 1 ELSE resets
             /\ IF remaining2 = <<>>
                THEN /\ result' = [success |-> FALSE, error |-> <<"A", "l", "l", " ", "A", "P", "I", "s", " ", "e", "x", "h", "a", "u", "s", "t", "e", "d">>,
                                   analysis |-> chunk_analysis, tried_apis |-> tried_apis]
                     /\ pc' = "done"
                     /\ lastOp' = [op |-> "route_return", api |-> "-", ret |-> FALSE]
                     /\ UNCHANGED <<tried_apis, selected_api>>
                ELSE /\ selected_api' = choice
                     /\ tried_apis' = TriedAfter(tried_apis, choice)
                     /\ pc' = "delay"
                     /\ lastOp' = [op |-> "route_select", api |-> choice,
                                   ret |-> remaining2, tried |-> tried_apis]
                     /\ UNCHANGED result
  /\ UNCHANGED <<now, api_key, chunk_analysis, max_retries, attempt_count, invoked,
                 at_start, steps, threads, last_recorded>>

\* _execute_with_api, lines 211-216: asyncio.sleep(delay) before the call
RouteDelay ==
  /\ pc = "delay"
  /\ now' = IF api_configs[selected_api].delay_between_calls > 0
            THEN now + api_configs[selected_api].delay_between_calls
            ELSE now
  /\ pc' = "call"
  /\ lastOp' = [op |-> "route_delay", api |-> selected_api, ret |-> FALSE]
  /\ UNCHANGED <<api_key, usage_stats, chunk_analysis, emergency_mode, max_retries,
                 attempt_count, tried_apis, selected_api, result, invoked, resets,
                 at_start, steps, threads, last_recorded>>

\* the provider call returns; lines 98-138.  route_and_execute has no except
\* clause: an exception leaving _execute_with_api would leave the call too,
\* before record_api_call.
RouteCall(outcome) ==
  /\ pc = "call"
  /\ LET res == ExecuteWithApi(selected_api, outcome, chunk_analysis)
         raised == "exception" \in DOMAIN res
         error_message == IF "error" \in DOMAIN res THEN res.error ELSE <<>>
         is_success == IF raised THEN FALSE ELSE res.success
     IN IF raised
        THEN /\ pc' = "raised"
             /\ result' = res
             /\ lastOp' = [op |-> "route_raise", api |-> selected_api, ret |-> FALSE]
             /\ UNCHANGED <<usage_stats, attempt_count, invoked, last_recorded>>
        ELSE
        /\ invoked' = Append(invoked, [api |-> selected_api, success |-> is_success,
                                       error |-> error_message])
        /\ usage_stats' = [usage_stats EXCEPT
              ![selected_api] = RecordApiCallOn(@, selected_api, is_success, error_message, now)]
        /\ last_recorded' = usage_stats'
        /\ IF is_success
           THEN /\ result' = [success |-> TRUE, content |-> res.content,
                              api_used |-> res.api_used, model |-> res.model,
                              analysis |-> res.analysis,
                              attempts_made |-> attempt_count + 1,
                              tried_apis |-> tried_apis]
                /\ UNCHANGED attempt_count
           ELSE IF ShouldRetryError(error_message)
           THEN /\ attempt_count' = attempt_count + 1
                /\ UNCHANGED result
           ELSE /\ UNCHANGED <<attempt_count, result>>
        /\ pc' = PcAfterCall(is_success, ShouldRetryError(error_message),
                             attempt_count, max_retries)
        /\ lastOp' = [op |-> "route_call", api |-> selected_api, ret |-> is_success,
                      error |-> error_message, count |-> attempt_count]
  /\ UNCHANGED <<now, api_key, chunk_analysis, emergency_mode, max_retries,
                 tried_apis, selected_api, resets, at_start, steps, threads>>

\* line 133: asyncio.sleep(2) before the next iteration
RoutePause ==
  /\ pc = "pause"
  /\ now' = now + 2
  /\ pc' = "loop"
  /\ lastOp' = [op |-> "route_pause", api |-> "-", ret |-> FALSE]
  /\ UNCHANGED <<api_key, usage_stats, chunk_analysis, emergency_mode, max_retries,
                 attempt_count, tried_apis, selected_api, result, invoked, resets,
                 at_start, steps, threads, last_recorded>>

\* variant: the except clauses catch everything (`except BaseException`, or
\* an interpreter in which CancelledError derives from Exception)
CaughtByExceptException_all(exception) == TRUE

\* `except Exception` in the adapters and in _execute_with_api:
\* asyncio.CancelledError derives from BaseException and is not caught
CaughtByExceptException(exception) == exception # "CancelledError"

\* the task running the call is cancelled while it is suspended in the sleep
\* before the provider call (line 216), in the provider call (the await of
\* asyncio.to_thread inside the adapter's try) or in the sleep before the
\* next iteration (line 133): CancelledError is raised at the await
RouteCancel ==
  /\ pc \in {"delay", "call", "pause"}
  /\ IF pc = "call" /\ CaughtByExceptException("CancelledError")
     THEN RouteCall([kind |-> "raise", e |-> <<>>])
     ELSE /\ pc' = "cancelled"
          /\ result' = [exception |-> <<"C", "a", "n", "c", "e", "l", "l", "e", "d", "E", "r", "r", "o", "r">>]
          /\ lastOp' = [op |-> "route_cancel", api |-> selected_api, ret |-> FALSE,
                        at |-> pc]
          /\ UNCHANGED <<now, api_key, usage_stats, chunk_analysis, emergency_mode,
                         max_retries, attempt_count, tried_apis, selected_api, invoked,
                         resets, at_start, steps, threads, last_recorded>>

\* the caller has the result and goes on to its next routing call (the
\* summarizers call route_and_execute once per chunk, one after the other)
RouteNext ==
  /\ pc = "done"
  /\ steps + 1 < MaxRoutingCalls
  /\ steps' = steps + 1
  /\ pc' = "idle"
  /\ lastOp' = [op |-> "route_next", api |-> "-", ret |-> result.success]
  /\ UNCHANGED <<now, api_key, usage_stats, chunk_analysis, emergency_mode, max_retries,
                 attempt_count, tried_apis, selected_api, result, invoked, resets,
                 at_start, threads, last_recorded>>

---------------------------------------------------------------------------
(* Specification of the manager: its methods called in any order by the    *)
(* status routes, the demo script and the controller, on a manager with    *)
(* one or two configured backends, while time passes.                       *)

ManagerCredentials == { {"google_primary"}, {"together_ai"}, {"google_secondary", "groq"} }

Configured == { b \in Backends : api_key[b] }

InitManager == \E ks \in ManagerCredentials : InitWith(ks, InitialUsageStats)

NextManager ==
  \/ \E t \in {now + 1} \cup Deadlines \cup { d - 1 : d \in Deadlines } : Budget(MaxSteps) /\ Tick(t)
  \/ \E b \in Configured : IsApiCurrentlyAvailable(b)
  \/ GetAvailableApis
  \/ GetUsageSummary
  \/ GetRoutingStats
  \/ \E a \in ChunkAnalyses : a.priority = "medium" /\ GetBestApi(a)
  \/ \E b \in Configured : Budget(MaxSteps) /\ RecordApiCall(b, TRUE, None)
  \/ \E b \in Configured, m \in DirectMessages : Budget(MaxSteps) /\ RecordApiCall(b, FALSE, m)
  \/ \E b \in Configured : Budget(MaxSteps) /\ EmergencyReset(b)
  \/ Budget(MaxSteps) /\ ForceEnableAllApis

SpecManager == InitManager /\ [][NextManager]_vars

---------------------------------------------------------------------------
(* Specification of one routing call: the backends may have failed before  *)
(* it starts, and cooldowns may run out while a provider call is pending.  *)

RouteCredentials ==
  { {"google_primary"},
    {"groq", "together_ai"},
    {"google_primary", "google_secondary", "groq"} }

RouteAnalyses ==
  { a \in ChunkAnalyses :
      \/ a.has_indic_script /\ a.complexity = "simple"
      \/ ~a.has_indic_script /\ a.complexity = "complex"
      \/ ~a.has_indic_script /\ a.complexity = "simple" /\ a.priority = "low" }

MaxRetriesArgs == {0, 1, DefaultMaxRetries}

PriorMessages == { <<"4", "2", "9", " ", "r", "a", "t", "e", " ", "l", "i", "m", "i", "t", " ", "e", "x", "c", "e", "e", "d", "e", "d">> }

InitRoute == \E ks \in RouteCredentials : InitWith(ks, InitialUsageStats)

NextRoute ==
  \/ \E b \in Configured, m \in PriorMessages :
       pc = "idle" /\ Budget(MaxPriorCalls) /\ RecordApiCall(b, FALSE, m)
  \/ \E t \in Deadlines : pc \in {"idle", "call"} /\ UNCHANGED steps /\ Tick(t)
  \/ \E a \in RouteAnalyses, em \in BOOLEAN, mr \in MaxRetriesArgs : RouteStart(a, em, mr)
  \/ RouteSelect
  \/ RouteDelay
  \/ \E o \in Outcomes : RouteCall(o)
  \/ RoutePause
  \/ RouteCancel

SpecRoute == InitRoute /\ [][NextRoute]_vars

---------------------------------------------------------------------------
(* Properties of the health & cooldown manager (SpecManager) *)

\* a failure with a non-empty message is the latest record_api_call or reset
\* made on b: only such a failure leaves a non-empty last_error
FailurePending(b) == Truthy(usage_stats[b].last_error)

\* C1: after a failure recorded with a classified message, the cooldown the
\* failure set ends after the failure, the availability read is false at
\* every time before rate_limit_reset_time and true from that time on; this
\* is what the read returns now and what the latest read returned.
C1_CooldownGatesAvailability ==
  /\ \A b \in Backends :
       FailurePending(b) =>
         /\ usage_stats[b].rate_limit_reset_time > usage_stats[b].last_call_time
         /\ IsCurrentlyAvailable(usage_stats[b], now)
              = (now >= usage_stats[b].rate_limit_reset_time)
  /\ (lastOp.op = "is_available" /\ FailurePending(lastOp.api)) =>
       lastOp.ret = (now >= usage_stats[lastOp.api].rate_limit_reset_time)
  /\ (lastOp.op = "record_failure" /\ Truthy(lastOp.ret)) =>
       ~IsCurrentlyAvailable(usage_stats[lastOp.api], now)

\* a read made exactly when the 300 s cooldown of a third consecutive
\* failure ends
C1_Witness ==
  /\ lastOp.op = "is_available"
  /\ FailurePending(lastOp.api)
  /\ lastOp.ret = TRUE
  /\ now = usage_stats[lastOp.api].rate_limit_reset_time
  /\ now = usage_stats[lastOp.api].last_call_time + 300

\* C2: one record_api_call(B, success=true) leaves consecutive_failures = 0,
\* last_error cleared and is_available = true, and B, if it has a credential,
\* is in the list get_available_apis returns next.
C2_SuccessClearsFailureState ==
  lastOp.op = "record_success" =>
    /\ usage_stats[lastOp.api].consecutive_failures = 0
    /\ usage_stats[lastOp.api].last_error = None
    /\ usage_stats[lastOp.api].is_available
    /\ api_key[lastOp.api] =>
         lastOp.api \in SeqToSet(AvailableApis(usage_stats, api_key, now))

\* a success recorded after two failures, while the cooldown of the last
\* failure is still running
C2_Witness ==
  /\ lastOp.op = "record_success"
  /\ usage_stats[lastOp.api].failed_calls >= 2
  /\ usage_stats[lastOp.api].rate_limit_reset_time > now

ReadOps == {"is_available", "get_available_apis", "get_usage_summary"}

\* the fields of a record an availability read may not touch
ReadFrame(s) ==
  <<s.calls_made, s.successful_calls, s.failed_calls, s.last_call_time,
    s.last_error, s.rate_limit_reset_time>>

\* the same read made again on the state the read left, at the same time
ReadAgain(op, us) ==
  CASE op.op = "is_available" ->
         [ret |-> IsCurrentlyAvailable(us[op.api], now),
          us |-> [us EXCEPT ![op.api] = AfterAvailabilityRead(@, now)]]
    [] op.op = "get_available_apis" ->
         [ret |-> AvailableApis(us, api_key, now),
          us |-> AfterGetAvailableApis(us, api_key, now)]
    [] OTHER ->
         [ret |-> UsageSummary(us, now), us |-> AfterGetUsageSummary(us, now)]

\* C3: an availability read (direct, through get_available_apis or through
\* get_usage_summary) changes nothing but the lazy flip (is_available false
\* to true with consecutive_failures reset), and the same read repeated at
\* the same time returns the same value and changes nothing at all.
C3_ReadsAreIdempotent ==
  [][lastOp'.op \in ReadOps =>
       /\ \A b \in Backends :
            /\ ReadFrame(usage_stats'[b]) = ReadFrame(usage_stats[b])
            /\ usage_stats'[b] # usage_stats[b] =>
                 /\ ~usage_stats[b].is_available
                 /\ usage_stats'[b].is_available
                 /\ usage_stats'[b].consecutive_failures = 0
       /\ ReadAgain(lastOp', usage_stats').ret = lastOp'.ret
       /\ ReadAgain(lastOp', usage_stats').us = usage_stats']_vars

\* the status query has just re-enabled a backend whose cooldown ran out
C3_Witness ==
  /\ lastOp.op = "get_usage_summary"
  /\ \E b \in Backends :
       /\ FailurePending(b)
       /\ lastOp.ret[b].is_available
       /\ usage_stats[b].is_available
       /\ usage_stats[b].consecutive_failures = 0
       /\ now = usage_stats[b].rate_limit_reset_time

---------------------------------------------------------------------------
(* Specification of the selector: both selection functions applied to      *)
(* every list of available backends, with usage records that earlier       *)
(* calls can have left on backends that are available.                     *)

\* never called; called with success a second ago; failed twice without an
\* error text two hours ago (no cooldown: the backend stays available)
StatProfiles ==
  { APIUsageStats,
    RecordSuccess(APIUsageStats, StartTime - 1),
    RecordFailure(RecordFailure(APIUsageStats, "groq", None, StartTime - 7200),
                  "groq", None, StartTime - 7200) }

\* the records of backends without a credential play no part in a selection
InitSelector ==
  \E ks \in SUBSET Backends, stats \in [Backends -> StatProfiles] :
    /\ \A b \in Backends \ ks : stats[b] = APIUsageStats
    /\ InitWith(ks, stats)

\* the lists the selection functions pass to _choose_least_used_api
CandidateLists ==
  { AvailableApis(usage_stats, api_key, now),
    GoogleOf(AvailableApis(usage_stats, api_key, now)),
    PowerfulOf(AvailableApis(usage_stats, api_key, now)) }

NextSelector ==
  \/ \E a \in ChunkAnalyses : GetBestApi(a)
  \/ \E a \in ChunkAnalyses : SelectBest(AvailableApis(usage_stats, api_key, now), a)
  \/ \E l \in CandidateLists : ChooseLeastUsed(l)

SpecSelector == InitSelector /\ [][NextSelector]_vars

ScriptCapable(b) == b \in Backends /\ api_configs[b].supports_indic

\* C4: for an analysis with has_indic_script and a candidate list holding a
\* script-capable backend, _select_best_from_remaining and get_best_api
\* return a script-capable backend, whatever the usage records.
C4_ScriptContentGetsScriptBackend ==
  (/\ lastOp.op \in {"get_best_api", "select_best"}
   /\ lastOp.analysis.has_indic_script
   /\ \E b \in SeqToSet(lastOp.available) : ScriptCapable(b))
    => ScriptCapable(lastOp.ret)

\* the engine's selector passed over a backend that is not script-capable
\* although its score is below that of every script-capable candidate
C4_Witness ==
  /\ lastOp.op = "select_best"
  /\ lastOp.analysis.has_indic_script
  /\ ScriptCapable(lastOp.ret)
  /\ \E b \in SeqToSet(lastOp.available) :
       /\ ~ScriptCapable(b)
       /\ \A g \in SeqToSet(lastOp.available) :
            ScriptCapable(g) => Score(usage_stats, b, now) < Score(usage_stats, g, now)

---------------------------------------------------------------------------
(* Properties of one routing call (SpecRoute) *)

\* the backends the call has invoked so far
InvokedApis == { invoked[i].api : i \in 1..Len(invoked) }

\* C5: whatever max_retries >= 0 and whatever the backends answer, the
\* attempts_made a routing call reports in its result is at most max_retries.
C5_AttemptsWithinMaxRetries ==
  (pc = "done" /\ "attempts_made" \in DOMAIN result) =>
    result.attempts_made <= max_retries

\* a success on the last attempt the default limit allows, after two
\* retryable failures
C5_Witness ==
  /\ pc = "done"
  /\ result.success
  /\ max_retries = DefaultMaxRetries
  /\ result.attempts_made = max_retries
  /\ Len(invoked) = 3

C7_SuccessEndsTheCall ==
  /\ \A i \in 1..Len(invoked) :
       invoked[i].success =>
         /\ i = Len(invoked)
         /\ pc = "done"
         /\ result.success
         /\ result.api_used = invoked[i].api
         /\ usage_stats[invoked[i].api].successful_calls >= 1
         /\ usage_stats[invoked[i].api].last_call_time = now
  /\ (lastOp.op = "route_select" \/ pc \in {"delay", "call", "pause"}) =>
       \A i \in 1..Len(invoked) : ~invoked[i].success

\* a success on the second backend while a third one, never tried, is still
\* available
C7_Witness ==
  /\ pc = "done"
  /\ result.success
  /\ Len(invoked) = 2
  /\ \E b \in Configured \ tried_apis : IsCurrentlyAvailable(usage_stats[b], now)

\* the call started with its only configured backend in cooldown and without
\* emergency_mode
EmergencyScenario ==
  /\ pc # "idle"
  /\ Cardinality(Configured) = 1
  /\ at_start.unavailable \cap Configured = Configured
  /\ ~at_start.emergency_mode

\* the first iteration force-clears the cooldown and selects the backend, the
\* backend is invoked, a successful answer makes the call return success, and
\* the call does not return before the backend was invoked
EmergencyResetOutcome ==
  /\ pc \in {"delay", "call"} =>
       /\ resets = 1
       /\ emergency_mode
       /\ selected_api \in Configured
       /\ usage_stats[selected_api].is_available
       /\ usage_stats[selected_api].rate_limit_reset_time = 0
  /\ pc = "done" =>
       /\ resets = 1
       /\ Len(invoked) = 1
       /\ invoked[1].api \in Configured
       /\ invoked[1].success =>
            /\ result.success
            /\ result.api_used = invoked[1].api
            /\ result.attempts_made = 1

\* C8 as stated: with one configured backend that is in cooldown, every call
\* started without emergency_mode before the cooldown ends force-clears the
\* cooldown, invokes the backend and returns its success.
C8_EmergencyResetOnEveryCall == EmergencyScenario => EmergencyResetOutcome

\* C8, amended: with one configured backend that is in cooldown, a call
\* started without emergency_mode and with max_retries >= 1 before the
\* cooldown ends force-clears the cooldown, invokes the backend and returns
\* success when the backend answers; it never returns "All APIs exhausted"
\* without having invoked the backend.
C8_EmergencyResetRevivesOnlyBackend ==
  (EmergencyScenario /\ max_retries >= 1) =>
    /\ EmergencyResetOutcome
    /\ (pc = "done" /\ ~result.success /\ result.error = <<"A", "l", "l", " ", "A", "P", "I", "s", " ", "e", "x", "h", "a", "u", "s", "t", "e", "d">>) =>
         (Len(invoked) = 1 /\ ~invoked[1].success)

\* the backend failed with "429 rate limit exceeded", the call started
\* during the cooldown and returned the backend's successful answer
C8_Witness ==
  /\ EmergencyScenario
  /\ pc = "done"
  /\ result.success
  /\ now < StartTime + 70
  /\ \E b \in Configured : usage_stats[b].failed_calls = 1

\* the texts of the two scenarios, as the adapter of backend b reports them
InternalServerError(b) == AdapterPrefix[b] \o <<"5", "0", "0", " ", "i", "n", "t", "e", "r", "n", "a", "l", " ", "s", "e", "r", "v", "e", "r", " ", "e", "r", "r", "o", "r">>

InsufficientQuota(b) == AdapterPrefix[b] \o <<"i", "n", "s", "u", "f", "f", "i", "c", "i", "e", "n", "t", "_", "q", "u", "o", "t", "a">>

\* C9: when the first invocation (A) fails with "500 internal server error"
\* and the second (B) succeeds, attempt_count was incremented by A's failure
\* and the result has success, attempts_made = 2, tried_apis = {A, B} and
\* api_used = B.
C9_TransientFailureCountsAsAttempt ==
  ( /\ pc = "done"
    /\ Len(invoked) = 2
    /\ ~invoked[1].success
    /\ invoked[1].error = InternalServerError(invoked[1].api)
    /\ invoked[2].success ) =>
      /\ attempt_count = 1
      /\ result.success
      /\ result.attempts_made = 2
      /\ result.tried_apis = {invoked[1].api, invoked[2].api}
      /\ result.api_used = invoked[2].api

\* a quota / rate-limit text, told by the words the scenario names
IsQuotaMessage(m) ==
  \/ Contains(Lower(m), <<"q", "u", "o", "t", "a">>)
  \/ Contains(Lower(m), <<"r", "a", "t", "e", " ", "l", "i", "m", "i", "t">>)
  \/ Contains(Lower(m), <<"4", "2", "9">>)

\* C10: an invocation that fails with a quota / rate-limit message leaves
\* attempt_count as it was and sends the call back to the loop head without
\* a pause, the next selection takes a backend other than the failed one,
\* and a later success reports attempts_made = attempt_count + 1, which is 1
\* when every failure before it was of that kind.
C10_QuotaFailureSwitchesBackend ==
  /\ (lastOp.op = "route_call" /\ ~lastOp.ret /\ IsQuotaMessage(lastOp.error)) =>
       /\ attempt_count = lastOp.count
       /\ pc = "loop"
  /\ (lastOp.op = "route_select" /\ Len(invoked) >= 1) =>
       lastOp.api # invoked[Len(invoked)].api
  /\ (pc = "done" /\ result.success) =>
       /\ result.attempts_made = attempt_count + 1
       /\ (\A i \in 1..(Len(invoked) - 1) : IsQuotaMessage(invoked[i].error)) =>
            result.attempts_made = 1

\* a first backend failed with insufficient_quota and the second answered
C10_Witness ==
  /\ pc = "done"
  /\ result.success
  /\ Len(invoked) = 2
  /\ invoked[1].error = InsufficientQuota(invoked[1].api)
  /\ result.attempts_made = 1
  /\ result.api_used = invoked[2].api

---------------------------------------------------------------------------
(* Further properties of the selector (SpecSelector) *)

\* C11: for every non-empty candidate list, every chunk analysis and every
\* usage record, get_best_api and _select_best_from_remaining return a
\* member of the candidate list; they return None only for the empty list.
C11_SelectorReturnsACandidate ==
  lastOp.op \in {"get_best_api", "select_best"} =>
    /\ lastOp.available # <<>> => lastOp.ret \in SeqToSet(lastOp.available)
    /\ lastOp.ret = NoApi => lastOp.available = <<>>

\* a selection among three or more candidates decided by the scores: the
\* backend returned is not the first of the list, which has kept failing
C11_Witness ==
  /\ lastOp.op = "select_best"
  /\ Len(lastOp.available) >= 3
  /\ lastOp.ret \in SeqToSet(lastOp.available)
  /\ lastOp.ret # lastOp.available[1]
  /\ Score(usage_stats, lastOp.ret, now) < Score(usage_stats, lastOp.available[1], now)

---------------------------------------------------------------------------
(* Further properties of the routing call (SpecRoute) *)

\* C12: a backend without a credential is never in the list
\* get_available_apis returns, whatever failures, reads, cooldown expiries
\* and resets came before, and a routing call never selects or invokes one.
C12_NoCredentialNoSelection ==
  /\ SeqToSet(AvailableApis(usage_stats, api_key, now)) \subseteq Configured
  /\ lastOp.op = "route_select" =>
       /\ SeqToSet(lastOp.ret) \subseteq Configured
       /\ lastOp.api \in Configured
  /\ selected_api # NoApi => selected_api \in Configured
  /\ tried_apis \subseteq Configured
  /\ InvokedApis \subseteq Configured

\* every configured backend has failed in the call and the emergency reset
\* has run, so that the only backends left untried are those without a
\* credential, whose records say available; the call ends without them
C12_Witness ==
  /\ pc = "done"
  /\ resets = 1
  /\ tried_apis = Configured
  /\ ~result.success
  /\ \E b \in Backends \ Configured :
       /\ usage_stats[b].is_available
       /\ IsCurrentlyAvailable(usage_stats[b], now)

\* calls_made summed over the records
TotalCallsMade ==
  usage_stats[ApiOrder[1]].calls_made + usage_stats[ApiOrder[2]].calls_made
    + usage_stats[ApiOrder[3]].calls_made + usage_stats[ApiOrder[4]].calls_made
    + usage_stats[ApiOrder[5]].calls_made

\* what the adapter layer hands back is a result dict with a boolean success
\* and, on failure, a non-empty error text
IsStructuredResult(r) ==
  /\ "exception" \notin DOMAIN r
  /\ r.success \in BOOLEAN
  /\ ~r.success => Truthy(r.error)

\* no exception has left the adapters or the call, every invocation made
\* has been recorded, and a call that has ended has returned a structured
\* result
NoExceptionEscapes ==
  /\ pc # "raised"
  /\ \A name \in Backends \cup {UnknownApi}, o \in Outcomes :
       /\ IsStructuredResult(ExecuteWithApi(name, o, chunk_analysis))
       /\ o.kind # "ok" => ~ExecuteWithApi(name, o, chunk_analysis).success
       /\ name = UnknownApi => ~ExecuteWithApi(name, o, chunk_analysis).success
  /\ \A i \in 1..Len(invoked) : ~invoked[i].success => Truthy(invoked[i].error)
  /\ TotalCallsMade = Len(invoked) + steps
  /\ lastOp.op = "route_call" =>
       /\ usage_stats[lastOp.api].last_call_time = now
       /\ lastOp.ret => usage_stats[lastOp.api].last_error = None
       /\ ~lastOp.ret => usage_stats[lastOp.api].last_error = lastOp.error
  /\ pc = "done" => IsStructuredResult(result)

\* how far a call is from its return: four steps at most for each backend
\* not tried yet, and the steps left in the current iteration
StepsToReturn ==
  IF pc \in {"idle", "done"} THEN 0
  ELSE 4 * Cardinality(Configured \ tried_apis)
         + (CASE pc = "loop" -> 4 [] pc = "delay" -> 7 [] pc = "call" -> 6
              [] pc = "pause" -> 5 [] OTHER -> 0)

RouteOps == {"route_select", "route_delay", "route_call", "route_pause", "route_return"}

\* C13: whatever the backends do (answer, answer with nothing, raise) and
\* also for a backend name the dispatch does not know, the adapter layer
\* returns {success: false, error}, the outcome is recorded, no exception
\* leaves route_and_execute, every step of a call brings it nearer to its
\* return, and the call ends by returning a structured result with a
\* boolean success.
C13_NeverRaisesToCaller ==
  /\ []NoExceptionEscapes
  /\ [][lastOp'.op \in RouteOps \cup {"route_raise"} =>
          /\ lastOp'.op \in RouteOps
          /\ StepsToReturn' < StepsToReturn
          /\ StepsToReturn' >= 0
          /\ StepsToReturn' = 0 <=> pc' = "done"]_vars

\* a call in which a provider call raised and which returned a failure
C13_Witness ==
  /\ pc = "done"
  /\ ~result.success
  /\ Len(invoked) >= 1
  /\ \E i \in 1..Len(invoked), e \in ProviderErrors :
       invoked[i].error = AdapterPrefix[invoked[i].api] \o e

\* C14: the result of a routing call, on each of its exits, carries
\* tried_apis and an integer attempts_made; content and api_used are present
\* exactly when success is true, error exactly when it is false.
C14_ResultHasEveryField ==
  pc = "done" =>
    /\ "success" \in DOMAIN result
    /\ "tried_apis" \in DOMAIN result
    /\ "attempts_made" \in DOMAIN result
    /\ result.attempts_made \in Nat
    /\ ("content" \in DOMAIN result) <=> result.success
    /\ ("api_used" \in DOMAIN result) <=> result.success
    /\ ("error" \in DOMAIN result) <=> ~result.success

---------------------------------------------------------------------------
(* record_api_call run by several request threads at once: the global      *)
(* controller is shared by the request threads, each thread runs its own   *)
(* event loop, and the manager takes no lock.  `x += 1` is a load followed *)
(* by a store, and another thread can run between the two.                 *)

ThreadMessages ==
  { <<"4", "2", "9", " ", "r", "a", "t", "e", " ", "l", "i", "m", "i", "t", " ", "e", "x", "c", "e", "e", "d", "e", "d">>, <<"A", "u", "t", "h", "e", "n", "t", "i", "c", "a", "t", "i", "o", "n", " ", "f", "a", "i", "l", "e", "d", ":", " ", "I", "n", "v", "a", "l", "i", "d", " ", "A", "P", "I", " ", "k", "e", "y">> }

ThreadUnchanged ==
  /\ UNCHANGED <<now, api_key, pc, chunk_analysis, emergency_mode, max_retries,
                 attempt_count, tried_apis, selected_api, result, resets, at_start,
                 last_recorded>>

\* the thread that runs
Me(t) == threads[t]

\* the record the thread works on
Stats(t) == usage_stats[threads[t].api]

\* record_api_call is entered: lines 148-153
ThreadRecordBegin(t, api_name, success, error_message) ==
  /\ Me(t).pc = "idle"
  /\ Budget(MaxThreadCalls)
  /\ threads' = [threads EXCEPT ![t] = [pc |-> "load_calls", api |-> api_name,
                    success |-> success, error_message |-> error_message, reg |-> 0]]
  /\ invoked' = Append(invoked, [api |-> api_name, success |-> success,
                                 error |-> error_message])
  /\ lastOp' = [op |-> "thread_begin", api |-> api_name, ret |-> success]
  /\ UNCHANGED usage_stats
  /\ ThreadUnchanged

\* line 154, stats.calls_made += 1: the load
ThreadLoadCalls(t) ==
  /\ Me(t).pc = "load_calls"
  /\ threads' = [threads EXCEPT ![t].pc = "store_calls", ![t].reg = Stats(t).calls_made]
  /\ lastOp' = [op |-> "thread_load", api |-> Me(t).api, ret |-> FALSE]
  /\ UNCHANGED <<usage_stats, invoked, steps>>
  /\ ThreadUnchanged

\* line 154, the store, and line 155
ThreadStoreCalls(t) ==
  /\ Me(t).pc = "store_calls"
  /\ usage_stats' = [usage_stats EXCEPT ![Me(t).api].calls_made = Me(t).reg + 1,
                                        ![Me(t).api].last_call_time = now]
  /\ threads' = [threads EXCEPT ![t].pc = "load_outcome"]
  /\ lastOp' = [op |-> "thread_store", api |-> Me(t).api, ret |-> FALSE]
  /\ UNCHANGED <<invoked, steps>>
  /\ ThreadUnchanged

\* line 158 or 165, successful_calls += 1 or failed_calls += 1: the load
ThreadLoadOutcome(t) ==
  /\ Me(t).pc = "load_outcome"
  /\ threads' = [threads EXCEPT ![t].pc = "store_outcome",
                    ![t].reg = IF Me(t).success THEN Stats(t).successful_calls
                               ELSE Stats(t).failed_calls]
  /\ lastOp' = [op |-> "thread_load", api |-> Me(t).api, ret |-> FALSE]
  /\ UNCHANGED <<usage_stats, invoked, steps>>
  /\ ThreadUnchanged

\* the store, and for a success lines 159-162, which end the call
ThreadStoreOutcome(t) ==
  /\ Me(t).pc = "store_outcome"
  /\ IF Me(t).success
     THEN /\ usage_stats' = [usage_stats EXCEPT
                 ![Me(t).api].successful_calls = Me(t).reg + 1,
                 ![Me(t).api].consecutive_failures = 0,
                 ![Me(t).api].last_error = None,
                 ![Me(t).api].is_available = TRUE]
          /\ threads' = [threads EXCEPT ![t] = IdleThread]
     ELSE /\ usage_stats' = [usage_stats EXCEPT ![Me(t).api].failed_calls = Me(t).reg + 1]
          /\ threads' = [threads EXCEPT ![t].pc = "load_failures"]
  /\ lastOp' = [op |-> "thread_store", api |-> Me(t).api, ret |-> FALSE]
  /\ UNCHANGED <<invoked, steps>>
  /\ ThreadUnchanged

\* line 166, consecutive_failures += 1: the load
ThreadLoadFailures(t) ==
  /\ Me(t).pc = "load_failures"
  /\ threads' = [threads EXCEPT ![t].pc = "store_failures",
                                ![t].reg = Stats(t).consecutive_failures]
  /\ lastOp' = [op |-> "thread_load", api |-> Me(t).api, ret |-> FALSE]
  /\ UNCHANGED <<usage_stats, invoked, steps>>
  /\ ThreadUnchanged

\* the store, and lines 167-169
ThreadStoreFailures(t) ==
  /\ Me(t).pc = "store_failures"
  /\ usage_stats' = [usage_stats EXCEPT
          ![Me(t).api].consecutive_failures = Me(t).reg + 1,
          ![Me(t).api].last_error = Me(t).error_message]
  /\ threads' = [threads EXCEPT ![t] = IF Truthy(Me(t).error_message)
                                       THEN [@ EXCEPT !.pc = "handle_error"]
                                       ELSE IdleThread]
  /\ lastOp' = [op |-> "thread_store", api |-> Me(t).api, ret |-> FALSE]
  /\ UNCHANGED <<invoked, steps>>
  /\ ThreadUnchanged

\* line 170: _handle_api_error(api_name, error_message)
ThreadHandleError(t) ==
  /\ Me(t).pc = "handle_error"
  /\ usage_stats' = [usage_stats EXCEPT
          ![Me(t).api] = HandleApiError(@, Me(t).api, Me(t).error_message, now)]
  /\ threads' = [threads EXCEPT ![t] = IdleThread]
  /\ lastOp' = [op |-> "thread_handle_error", api |-> Me(t).api, ret |-> FALSE]
  /\ UNCHANGED <<invoked, steps>>
  /\ ThreadUnchanged

ThreadCredentials == { {"google_primary"}, {"google_primary", "groq"} }

InitThreads == \E ks \in ThreadCredentials : InitWith(ks, InitialUsageStats)

NextThreads ==
  \E t \in Threads :
    \/ \E b \in Configured : ThreadRecordBegin(t, b, TRUE, None)
    \/ \E b \in Configured, m \in ThreadMessages : ThreadRecordBegin(t, b, FALSE, m)
    \/ ThreadLoadCalls(t)
    \/ ThreadStoreCalls(t)
    \/ ThreadLoadOutcome(t)
    \/ ThreadStoreOutcome(t)
    \/ ThreadLoadFailures(t)
    \/ ThreadStoreFailures(t)
    \/ ThreadHandleError(t)

SpecThreads == InitThreads /\ [][NextThreads]_vars

\* the outcomes handed to record_api_call for backend b
OutcomesOf(b) == { i \in 1..Len(invoked) : invoked[i].api = b }

\* C15: once every record_api_call made by the concurrent routing calls has
\* completed, each backend's calls_made equals the number of outcomes
\* recorded for it and equals successful_calls + failed_calls, and the
\* cooldown in force is the one of the failure that last_error names: no
\* increment and no cooldown write is lost.
C15_ConcurrentUpdatesAreAtomic ==
  (\A t \in Threads : threads[t].pc = "idle") =>
    \A b \in Backends :
      /\ usage_stats[b].calls_made = Cardinality(OutcomesOf(b))
      /\ usage_stats[b].calls_made
           = usage_stats[b].successful_calls + usage_stats[b].failed_calls
      /\ usage_stats[b].failed_calls
           = Cardinality({ i \in OutcomesOf(b) : ~invoked[i].success })
      /\ FailurePending(b) =>
           usage_stats[b].rate_limit_reset_time
             = usage_stats[b].last_call_time
                 + CooldownSeconds(usage_stats[b], b, usage_stats[b].last_error)

---------------------------------------------------------------------------
(* Cancellation of a routing call (SpecRoute) *)

\* the fields record_api_call alone writes
CallCounters(s) ==
  <<s.calls_made, s.successful_calls, s.failed_calls, s.last_call_time>>

\* the error text an adapter would build from a CancelledError it caught
\* (str() of the exception is empty)
CancelledOutcomeText(b) == AdapterPrefix[b] \o <<>>

\* C16 as stated: after a cancellation no outcome is recorded for the
\* invocation in flight, and every field of every usage record has the
\* value the last completed record_api_call left (the value at the start of
\* the call when the call completed none).
C16_CancelLeavesLastRecordedState ==
  pc = "cancelled" =>
    /\ TotalCallsMade = Len(invoked) + steps
    /\ usage_stats = last_recorded

\* C16, amended: the cancellation itself writes nothing and records no
\* outcome for the invocation in flight; the counters and last_call_time of
\* every record have the values the last completed record_api_call left,
\* and so has every field when the call is cancelled in the retry pause.
\* (is_available, consecutive_failures, last_error and rate_limit_reset_time
\* can differ after a cancellation in the delay or in the provider call:
\* the loop head re-enabled backends before it selected.)
C16_CancelWritesNothing ==
  /\ [](\A i \in 1..Len(invoked) : invoked[i].error # CancelledOutcomeText(invoked[i].api))
  /\ [](pc = "cancelled" =>
          /\ TotalCallsMade = Len(invoked) + steps
          /\ selected_api \notin InvokedApis \/ lastOp.at = "pause"
          /\ \A b \in Backends :
               CallCounters(usage_stats[b]) = CallCounters(last_recorded[b])
          /\ lastOp.at = "pause" => usage_stats = last_recorded)
  /\ [][pc' = "cancelled" =>
          /\ usage_stats' = usage_stats
          /\ invoked' = invoked
          /\ tried_apis' = tried_apis]_vars

\* a call cancelled during the provider call, after the emergency reset had
\* cleared the cooldown of the backend it then selected
C16_Witness ==
  /\ pc = "cancelled"
  /\ lastOp.at = "call"
  /\ resets = 1
  /\ usage_stats # last_recorded
  /\ usage_stats[selected_api].calls_made = last_recorded[selected_api].calls_made

---------------------------------------------------------------------------
(* The status query of the routing engine (SpecManager) *)

\* C17: in every reachable state of the manager get_routing_stats() returns
\* a statistics result, the per-backend breakdown and the counts of
\* available backends, and does not raise.
C17_RoutingStatsNeverRaises ==
  lastOp.op = "get_routing_stats" =>
    /\ "exception" \notin DOMAIN lastOp.ret
    /\ DOMAIN lastOp.ret = {"api_manager_stats", "routing_engine_info"}
    /\ DOMAIN lastOp.ret.api_manager_stats = Backends
    /\ lastOp.ret.routing_engine_info.available_apis
         = Len(AvailableApis(usage_stats, api_key, now))

---------------------------------------------------------------------------
(* Further properties of the health & cooldown manager (SpecManager) *)

\* C18: in every reachable state a backend whose is_available flag is true
\* has rate_limit_reset_time <= now: no backend is marked available while
\* its recorded cooldown is still running.
C18_AvailableOnlyAfterCooldown ==
  \A b \in Backends :
    usage_stats[b].is_available => usage_stats[b].rate_limit_reset_time <= now

---------------------------------------------------------------------------
(* Classification of failures: record_api_call with texts of every         *)
(* category, on backends of each provider, with successes in between       *)

FailureCredentials == { {"google_primary"}, {"groq", "together_ai"} }

InitFailures == \E ks \in FailureCredentials : InitWith(ks, InitialUsageStats)

NextFailures ==
  \/ \E b \in Configured, m \in ClassifiedMessages :
       Budget(MaxSteps) /\ RecordApiCall(b, FALSE, m)
  \/ \E b \in Configured : Budget(MaxSteps) /\ RecordApiCall(b, TRUE, None)

SpecFailures == InitFailures /\ [][NextFailures]_vars

\* error_message, lowercased, holds one of the words
Mentions(m, words) == \E w \in words : Contains(Lower(m), w)

RateLimitWords ==
  { <<"4", "2", "9">>, <<"r", "a", "t", "e", " ", "l", "i", "m", "i", "t">>, <<"q", "u", "o", "t", "a">>, <<"e", "x", "c", "e", "e", "d", "e", "d">>, <<"t", "o", "o", " ", "m", "a", "n", "y", " ", "r", "e", "q", "u", "e", "s", "t", "s">>,
    <<"l", "i", "m", "i", "t", " ", "e", "x", "c", "e", "e", "d", "e", "d">> }

AuthWords == { <<"a", "p", "i", " ", "k", "e", "y">>, <<"a", "u", "t", "h", "e", "n", "t", "i", "c", "a", "t", "i", "o", "n">>, <<"u", "n", "a", "u", "t", "h", "o", "r", "i", "z", "e", "d">>, <<"4", "0", "1">>, <<"4", "0", "3">>, <<"i", "n", "v", "a", "l", "i", "d", " ", "k", "e", "y">> }

TransientWords == { <<"5", "0", "0">>, <<"5", "0", "2">>, <<"5", "0", "3">>, <<"5", "0", "4">>, <<"t", "i", "m", "e", "o", "u", "t">>, <<"c", "o", "n", "n", "e", "c", "t", "i", "o", "n">>, <<"s", "e", "r", "v", "i", "c", "e", " ", "u", "n", "a", "v", "a", "i", "l", "a", "b", "l", "e">> }

\* the cooldown of the first category that matches, in the order rate-limit,
\* authentication, transient-service, repeated-failure, unknown
FirstMatchCooldown(b, m, failures) ==
  IF Mentions(m, RateLimitWords)
  THEN (IF api_configs[b].provider = "google" THEN 70
        ELSE IF api_configs[b].provider = "groq" THEN 90 ELSE 180)
  ELSE IF Mentions(m, AuthWords) THEN 3600
  ELSE IF Mentions(m, TransientWords) THEN 120
  ELSE IF failures >= 3 THEN 300
  ELSE 60

\* C19: a failure recorded with a non-empty message marks the backend
\* unavailable and sets rate_limit_reset_time to now plus the cooldown of the
\* first category that matches, in the order rate-limit, authentication,
\* transient-service, repeated-failure (consecutive_failures >= 3 after the
\* increment), unknown: a message with rate-limit and authentication words
\* gets the rate-limit cooldown, and an unclassified message on the third
\* consecutive failure gets 300 s, not 60 s.
C19_FirstMatchingCategoryWins ==
  (lastOp.op = "record_failure" /\ Truthy(lastOp.ret)) =>
    LET s == usage_stats[lastOp.api] IN
    /\ ~s.is_available
    /\ s.last_error = lastOp.ret
    /\ s.rate_limit_reset_time
         = now + FirstMatchCooldown(lastOp.api, lastOp.ret, s.consecutive_failures)
    /\ (Mentions(lastOp.ret, RateLimitWords) /\ Mentions(lastOp.ret, AuthWords)) =>
         s.rate_limit_reset_time \in {now + 70, now + 90, now + 180}
    /\ (lastOp.ret = <<"u", "n", "e", "x", "p", "e", "c", "t", "e", "d", " ", "f", "a", "i", "l", "u", "r", "e">> /\ s.consecutive_failures >= 3) =>
         s.rate_limit_reset_time = now + 300

\* the third consecutive failure of a backend carries a text of no
\* category: 300 s
C19_Witness ==
  /\ lastOp.op = "record_failure"
  /\ lastOp.ret = <<"u", "n", "e", "x", "p", "e", "c", "t", "e", "d", " ", "f", "a", "i", "l", "u", "r", "e">>
  /\ usage_stats[lastOp.api].consecutive_failures = 3
  /\ usage_stats[lastOp.api].failed_calls = 3
  /\ usage_stats[lastOp.api].rate_limit_reset_time = now + 300
  /\ steps = 3

---------------------------------------------------------------------------
(* The retry decision of the engine against the categories of the manager  *)
(* (SpecRoute)                                                             *)

\* C20: for every error message of a failed invocation, the engine counts
\* the failure as an attempt (attempt_count incremented) exactly when the
\* manager classifies the same message as a transient-service error;
\* rate-limit, authentication and unknown failures leave attempt_count as
\* it was.
C20_RetryDecisionFollowsCategory ==
  (lastOp.op = "route_call" /\ ~lastOp.ret) =>
    /\ attempt_count \in {lastOp.count, lastOp.count + 1}
    /\ (attempt_count = lastOp.count + 1)
         <=> (ErrorCategory(usage_stats[lastOp.api], lastOp.error) = "temporary")

---------------------------------------------------------------------------
(* The emergency reset within one routing call (SpecRoute) *)

\* the step on which the call returns the "All APIs exhausted" failure
ReturnsExhausted ==
  /\ pc = "loop"
  /\ pc' = "done"
  /\ result'.error = <<"A", "l", "l", " ", "A", "P", "I", "s", " ", "e", "x", "h", "a", "u", "s", "t", "e", "d">>

\* C21 as stated: force_enable_all_apis runs at most once in a routing call
\* and never in a call started with emergency_mode = true, and such a call,
\* when it finds no untried available backend, returns "All APIs exhausted"
\* and leaves every field of every usage record as it was.
C21_EmergencyCallExhaustsWithoutWrites ==
  /\ [](resets <= 1 /\ (at_start.emergency_mode => resets = 0))
  /\ [][(ReturnsExhausted /\ at_start.emergency_mode) =>
          usage_stats' = usage_stats]_vars

\* C21, amended: the reset runs at most once and never in a call started
\* with emergency_mode = true; the "All APIs exhausted" return of such a
\* call writes no counter, time, error or cooldown field, and the only
\* records it changes are those of backends already tried whose cooldown
\* has run out, which the availability read re-enables (is_available true,
\* consecutive_failures 0); a call that finds nothing at its first
\* iteration leaves every record as it was when the call started.
C21_EmergencyCallExhaustsWithLazyFlipOnly ==
  /\ [](resets <= 1 /\ (at_start.emergency_mode => resets = 0))
  /\ [][(ReturnsExhausted /\ at_start.emergency_mode) =>
          /\ \A b \in Backends :
               /\ ReadFrame(usage_stats'[b]) = ReadFrame(usage_stats[b])
               /\ usage_stats'[b] # usage_stats[b] =>
                    /\ b \in tried_apis
                    /\ ~usage_stats[b].is_available
                    /\ now >= usage_stats[b].rate_limit_reset_time
                    /\ usage_stats'[b].is_available
                    /\ usage_stats'[b].consecutive_failures = 0
          /\ tried_apis = {} =>
               /\ usage_stats' = usage_stats
               /\ usage_stats' = last_recorded]_vars

\* a call started with emergency_mode = true has returned "All APIs
\* exhausted" after two failed invocations; the cooldown of the first ran
\* out during the second provider call, and the read at the return
\* re-enabled that backend
C21_Witness ==
  /\ pc = "done"
  /\ at_start.emergency_mode
  /\ ~result.success
  /\ result.error = <<"A", "l", "l", " ", "A", "P", "I", "s", " ", "e", "x", "h", "a", "u", "s", "t", "e", "d">>
  /\ resets = 0
  /\ Len(invoked) = 2
  /\ usage_stats[invoked[1].api].is_available
  /\ usage_stats[invoked[1].api].consecutive_failures = 0
  /\ usage_stats[invoked[1].api].failed_calls >= 1
  /\ now >= usage_stats[invoked[1].api].rate_limit_reset_time

---------------------------------------------------------------------------
(* Further properties of the selector (SpecSelector) *)

GooglePair == {"google_primary", "google_secondary"}

\* C22: for a chunk without Indic script and of priority "medium", with both
\* Google backends among the candidates, _select_best_from_remaining returns
\* a Google backend: the one with fewer consecutive_failures and, when these
\* are equal, one whose last call is not more recent than the other's.
C22_MediumPriorityBalancesPrimaryTier ==
  (/\ lastOp.op = "select_best"
   /\ ~lastOp.analysis.has_indic_script
   /\ lastOp.analysis.priority = "medium"
   /\ GooglePair \subseteq SeqToSet(lastOp.available))
    => /\ lastOp.ret \in GooglePair
       /\ \A g \in GooglePair :
            /\ usage_stats[lastOp.ret].consecutive_failures
                 <= usage_stats[g].consecutive_failures
            /\ usage_stats[lastOp.ret].consecutive_failures
                 = usage_stats[g].consecutive_failures
               => usage_stats[lastOp.ret].last_call_time <= usage_stats[g].last_call_time

\* C23: _choose_least_used_api returns a candidate with the fewest
\* consecutive_failures (also against a never-called candidate, whose
\* last_call_time is 0) and, among the candidates with as few failures, one
\* that was called least recently.
C23_LeastUsedIsLexicographicMinimum ==
  (lastOp.op = "choose_least_used" /\ lastOp.available # <<>>) =>
    \A b \in SeqToSet(lastOp.available) :
      /\ usage_stats[lastOp.ret].consecutive_failures
           <= usage_stats[b].consecutive_failures
      /\ usage_stats[lastOp.ret].consecutive_failures
           = usage_stats[b].consecutive_failures
         => usage_stats[lastOp.ret].last_call_time <= usage_stats[b].last_call_time

---------------------------------------------------------------------------
(* Routing calls in flight at once: each request thread runs               *)
(* route_and_execute in an event loop of its own on the shared engine and  *)
(* manager.  A step is a stretch of the coroutine between two awaits; the  *)
(* threads are interleaved at these steps only (the interleavings inside a *)
(* stretch are those of record_api_call above).                            *)

\* the frame of route_and_execute in a thread that has just entered it
RoutingFrame(em, mr) ==
  [pc |-> "loop", api |-> NoApi, attempt_count |-> 0, tried_apis |-> {},
   emergency_mode |-> em, max_retries |-> mr, wake |-> 0]

\* the threads suspended in asyncio.sleep
Sleeping == { t \in Threads : threads[t].pc \in {"delay", "pause"} }

\* asyncio.sleep(seconds) entered at time t ends at t + seconds at the earliest
WakeTime(t, seconds) == IF seconds > 0 THEN t + seconds ELSE t

ConcurrentUnchanged ==
  UNCHANGED <<api_key, pc, chunk_analysis, emergency_mode, max_retries,
              attempt_count, tried_apis, selected_api, result, resets, at_start,
              last_recorded>>

\* a request thread calls route_and_execute: lines 62-67
ConcurrentStart(t, em, mr) ==
  /\ threads[t].pc = "idle"
  /\ Budget(MaxRoutingCalls)
  /\ threads' = [threads EXCEPT ![t] = RoutingFrame(em, mr)]
  /\ lastOp' = [op |-> "concurrent_start", api |-> "-", ret |-> FALSE, thread |-> t]
  /\ UNCHANGED <<now, usage_stats, invoked>>
  /\ ConcurrentUnchanged

\* the loop head of thread t up to its next await: lines 69-95 and 208-216
ConcurrentSelect(t) ==
  /\ threads[t].pc = "loop"
  /\ LET f == threads[t]
         us1 == AfterGetAvailableApis(usage_stats, api_key, now)
         remaining1 == RemainingApis(usage_stats, api_key, f.tried_apis, now)
         reset == NeedsEmergencyReset(remaining1, f.emergency_mode)
         us2 == IF reset THEN ForceEnableAll(us1) ELSE us1
         remaining2 == IF reset THEN RemainingApis(us2, api_key, f.tried_apis, now)
                       ELSE remaining1
         us3 == IF reset THEN AfterGetAvailableApis(us2, api_key, now) ELSE us2
         choice == SelectBestFromRemaining(us3, remaining2, chunk_analysis, now)
     IN IF ~WhileCondition(f.attempt_count, f.max_retries)
        THEN /\ threads' = [threads EXCEPT ![t] = IdleThread]
             /\ lastOp' = [op |-> "concurrent_return", api |-> "-", ret |-> FALSE,
                           thread |-> t, error |-> <<"A", "l", "l", " ", "A", "P", "I", "s", " ", "f", "a", "i", "l", "e", "d">>,
                           tried_apis |-> f.tried_apis]
             /\ UNCHANGED usage_stats
        ELSE /\ usage_stats' = us3
             /\ IF remaining2 = <<>>
                THEN /\ threads' = [threads EXCEPT ![t] = IdleThread]
                     /\ lastOp' = [op |-> "concurrent_return", api |-> "-", ret |-> FALSE,
                                   thread |-> t, error |-> <<"A", "l", "l", " ", "A", "P", "I", "s", " ", "e", "x", "h", "a", "u", "s", "t", "e", "d">>,
                                   tried_apis |-> f.tried_apis]
                ELSE /\ threads' = [threads EXCEPT ![t] =
                          [f EXCEPT !.pc = "delay",
                                    !.api = choice,
                                    !.tried_apis = TriedAfter(@, choice),
                                    !.emergency_mode = (@ \/ reset),
                                    !.wake = WakeTime(now, api_configs[choice].delay_between_calls)]]
                     /\ lastOp' = [op |-> "concurrent_select", api |-> choice, ret |-> FALSE,
                                   thread |-> t]
  /\ UNCHANGED <<now, invoked, steps>>
  /\ ConcurrentUnchanged

\* the sleep of thread t ends (the sleeps end in the order of their wake
\* times): after the pre-call delay the provider call starts, after the
\* retry pause the loop goes on
ConcurrentWake(t) ==
  /\ t \in Sleeping
  /\ \A o \in Sleeping : threads[t].wake <= threads[o].wake
  /\ LET f == threads[t]
         t1 == IF f.wake > now THEN f.wake ELSE now
     IN /\ now' = t1
        /\ IF f.pc = "delay"
           THEN /\ threads' = [threads EXCEPT ![t].pc = "call"]
                /\ invoked' = Append(invoked,
                      [api |-> f.api, at |-> t1, thread |-> t,
                       in_cooldown |-> ~IsCurrentlyAvailable(usage_stats[f.api], t1)])
           ELSE /\ threads' = [threads EXCEPT ![t].pc = "loop"]
                /\ UNCHANGED invoked
        /\ lastOp' = [op |-> "concurrent_wake", api |-> f.api, ret |-> FALSE, thread |-> t]
  /\ UNCHANGED <<usage_stats, steps>>
  /\ ConcurrentUnchanged

\* the provider call of thread t returns: lines 98-138
ConcurrentCall(t, outcome) ==
  /\ threads[t].pc = "call"
  /\ LET f == threads[t]
         res == ExecuteWithApi(f.api, outcome, chunk_analysis)
         error_message == IF "error" \in DOMAIN res THEN res.error ELSE <<>>
         is_success == res.success
         should_retry == ShouldRetryError(error_message)
         next == PcAfterCall(is_success, should_retry, f.attempt_count, f.max_retries)
     IN /\ usage_stats' = [usage_stats EXCEPT
              ![f.api] = RecordApiCallOn(@, f.api, is_success, error_message, now)]
        /\ threads' = [threads EXCEPT ![t] =
              IF next = "done" THEN IdleThread
              ELSE [f EXCEPT !.pc = next,
                             !.attempt_count = IF should_retry THEN @ + 1 ELSE @,
                             !.wake = IF next = "pause" THEN WakeTime(now, 2) ELSE @]]
        /\ lastOp' = [op |-> "concurrent_call", api |-> f.api, ret |-> is_success,
                      thread |-> t, error |-> error_message]
  /\ UNCHANGED <<now, invoked, steps>>
  /\ ConcurrentUnchanged

ConcurrentCredentials == { {"google_primary"}, {"groq", "together_ai"} }

\* the provider answers, refuses for quota, or is temporarily unavailable
ConcurrentOutcomes ==
  { [kind |-> "ok", e |-> <<>>],
    [kind |-> "raise", e |-> <<"i", "n", "s", "u", "f", "f", "i", "c", "i", "e", "n", "t", "_", "q", "u", "o", "t", "a">>],
    [kind |-> "raise", e |-> <<"5", "0", "3", " ", "S", "e", "r", "v", "i", "c", "e", " ", "T", "e", "m", "p", "o", "r", "a", "r", "i", "l", "y", " ", "U", "n", "a", "v", "a", "i", "l", "a", "b", "l", "e">>] }

InitConcurrent == \E ks \in ConcurrentCredentials : InitWith(ks, InitialUsageStats)

NextConcurrent ==
  \E t \in Threads :
    \/ \E em \in BOOLEAN : ConcurrentStart(t, em, DefaultMaxRetries)
    \/ ConcurrentSelect(t)
    \/ ConcurrentWake(t)
    \/ \E o \in ConcurrentOutcomes : ConcurrentCall(t, o)

SpecConcurrent == InitConcurrent /\ [][NextConcurrent]_vars

\* C24: between the starts of any two provider calls made on the same
\* backend through the engine at least the backend's delay_between_calls
\* seconds pass, whether the routing calls follow one another or are in
\* flight at once.
C24_MinimumSpacingBetweenInvocations ==
  \A i, j \in 1..Len(invoked) :
    (i < j /\ invoked[i].api = invoked[j].api) =>
      invoked[j].at - invoked[i].at >= api_configs[invoked[i].api].delay_between_calls

---------------------------------------------------------------------------
(* Failures recorded without an error text (SpecManager) *)

\* C25: every recorded failure puts the backend in cooldown: after
\* record_api_call(B, success = false) B is marked unavailable with a
\* cooldown ending in the future, and with an empty or absent error_message
\* the cooldown is the 60 s of the unknown category.
C25_EveryFailureStartsCooldown ==
  lastOp.op = "record_failure" =>
    /\ ~usage_stats[lastOp.api].is_available
    /\ usage_stats[lastOp.api].rate_limit_reset_time > now
    /\ ~Truthy(lastOp.ret) => usage_stats[lastOp.api].rate_limit_reset_time = now + 60

---------------------------------------------------------------------------
(* ChunkComplexityAnalyzer: script detection.  A chunk is the sequence of  *)
(* the code points ord(c) of its characters.                               *)

\* the character classes of self.indic_scripts, in the order of the dict
ScriptOrder == <<"hindi", "urdu", "bengali", "krutidev">>

\* [\u0900-\u097F] Devanagari, [\u0600-\u06FF] Arabic/Urdu, [\u0980-\u09FF] Bengali
InScriptRange(script, c) ==
  CASE script = "hindi"   -> c >= 2304 /\ c <= 2431
    [] script = "urdu"    -> c >= 1536 /\ c <= 1791
    [] script = "bengali" -> c >= 2432 /\ c <= 2559
    [] OTHER              -> FALSE

\* [a-zA-Z]
IsLatinLetter(c) == (c >= 97 /\ c <= 122) \/ (c >= 65 /\ c <= 90)

\* the whitespace str.split() splits on, among the characters used here
IsSpace(c) == c = 32

\* len(text.split())
WordCount(text) ==
  Cardinality({ i \in 1..Len(text) :
                  ~IsSpace(text[i]) /\ (i = 1 \/ IsSpace(text[i - 1])) })

\* len(pattern.findall(text)): the characters in the range, and for
\* [a-zA-Z]{2,} the maximal runs of at least two letters
ScriptMatches(script, text) ==
  IF script = "krutidev"
  THEN Cardinality({ i \in 1..Len(text) :
                       /\ IsLatinLetter(text[i])
                       /\ i = 1 \/ ~IsLatinLetter(text[i - 1])
                       /\ i < Len(text) /\ IsLatinLetter(text[i + 1]) })
  ELSE Cardinality({ i \in 1..Len(text) : InScriptRange(script, text[i]) })

\* max(indic_matches, key=indic_matches.get): the first key, in the order
\* of insertion, that has the greatest count
PrimaryScript(text) ==
  ScriptOrder[CHOOSE i \in 1..Len(ScriptOrder) :
     /\ \A j \in 1..Len(ScriptOrder) :
          ScriptMatches(ScriptOrder[j], text) <= ScriptMatches(ScriptOrder[i], text)
     /\ \A j \in 1..(i - 1) :
          ScriptMatches(ScriptOrder[j], text) < ScriptMatches(ScriptOrder[i], text)]

\* round(min(matches / words * 10, 1.0), 2), in hundredths
ScriptConfidence(matches, words) ==
  IF matches * 10 >= words THEN 100 ELSE (matches * 1000) \div words

\* _detect_language; the confidence is in hundredths
DetectLanguage(text) ==
  IF \E i \in 1..Len(ScriptOrder) : ScriptMatches(ScriptOrder[i], text) > 0
  THEN [primary_language |-> PrimaryScript(text),
        confidence |-> ScriptConfidence(ScriptMatches(PrimaryScript(text), text),
                                        WordCount(text)),
        has_indic_script |-> TRUE]
  ELSE [primary_language |-> "en", confidence |-> 80, has_indic_script |-> FALSE]

\* 'H', 'i', ' ', '1', Devanagari MA, Arabic ALEF, Bengali KA
ChunkChars == {72, 105, 32, 49, 2350, 1575, 2453}

Chunks == UNION { [1..n -> ChunkChars] : n \in 0..MaxChunkLen }

\* an analyzer and the chunk it is about to be given
InitAnalyzer ==
  /\ \E chunk \in Chunks : lastOp = [op |-> "chunk", api |-> "-", ret |-> FALSE, chunk |-> chunk]
  /\ now = StartTime
  /\ api_key = [b \in Backends |-> FALSE]
  /\ usage_stats = InitialUsageStats
  /\ pc = "idle"
  /\ chunk_analysis = [has_indic_script |-> FALSE, complexity |-> "medium", priority |-> "medium"]
  /\ emergency_mode = FALSE
  /\ max_retries = DefaultMaxRetries
  /\ attempt_count = 0
  /\ tried_apis = {}
  /\ selected_api = NoApi
  /\ result = NoResult
  /\ invoked = <<>>
  /\ resets = 0
  /\ at_start = [emergency_mode |-> FALSE, unavailable |-> {}]
  /\ steps = 0
  /\ threads = [t \in Threads |-> IdleThread]
  /\ last_recorded = InitialUsageStats

\* ChunkComplexityAnalyzer.analyze_chunk(chunk): the language fields and the
\* priority.  complexity and technical_score come from the word count, the
\* keyword lists and the mathematical patterns of the whole chunk; any of
\* their values is taken here.
AnalyzeChunk(complexity, technical_score) ==
  /\ lastOp.op = "chunk"
  /\ LET language_info == DetectLanguage(lastOp.chunk)
     IN lastOp' = [op |-> "analyze_chunk", api |-> "-", chunk |-> lastOp.chunk,
                   ret |-> [language |-> language_info.primary_language,
                            language_confidence |-> language_info.confidence,
                            has_indic_script |-> language_info.has_indic_script,
                            complexity |-> complexity,
                            priority |-> DeterminePriority(language_info.has_indic_script,
                                                           complexity, technical_score)]]
  /\ UNCHANGED <<now, api_key, usage_stats, steps>>
  /\ UNCHANGED routeVars

NextAnalyzer ==
  \E c \in {"simple", "medium", "complex"}, ts \in {0, 7} : AnalyzeChunk(c, ts)

SpecAnalyzer == InitAnalyzer /\ [][NextAnalyzer]_vars

\* the chunk holds a Devanagari, Arabic/Urdu or Bengali character
HasIndicCharacter(text) ==
  \E i \in 1..Len(text) :
    \E s \in {"hindi", "urdu", "bengali"} : InScriptRange(s, text[i])

\* C26: for a chunk without any Devanagari, Arabic/Urdu or Bengali character
\* analyze_chunk returns has_indic_script = false, language "en" with
\* confidence 0.8 and a priority other than "critical"; has_indic_script is
\* true only when such a character occurs.
C26_ScriptDetectionUsesIndicRangesOnly ==
  lastOp.op = "analyze_chunk" =>
    /\ ~HasIndicCharacter(lastOp.chunk) =>
         /\ ~lastOp.ret.has_indic_script
         /\ lastOp.ret.language = "en"
         /\ lastOp.ret.language_confidence = 80
         /\ lastOp.ret.priority # "critical"
    /\ lastOp.ret.has_indic_script => HasIndicCharacter(lastOp.chunk)

---------------------------------------------------------------------------
(* Specification of routing calls made one after the other on the same     *)
(* engine: nothing but the engine records outcomes, and cooldowns may run  *)
(* out between two calls and while a provider call is pending.             *)

SequenceCredentials == { {"google_primary"}, {"groq", "together_ai"} }

SequenceAnalyses ==
  { a \in ChunkAnalyses : ~a.has_indic_script /\ a.complexity = "simple" /\ a.priority = "low" }

InitSequence == \E ks \in SequenceCredentials : InitWith(ks, InitialUsageStats)

NextSequence ==
  \/ \E t \in Deadlines : pc \in {"idle", "call"} /\ UNCHANGED steps /\ Tick(t)
  \/ \E a \in SequenceAnalyses, em \in BOOLEAN : RouteStart(a, em, DefaultMaxRetries)
  \/ RouteSelect
  \/ RouteDelay
  \/ \E o \in Outcomes : RouteCall(o)
  \/ RoutePause
  \/ RouteNext

SpecSequence == InitSequence /\ [][NextSequence]_vars

---------------------------------------------------------------------------
(* The cooldown of a failure and the rest of the routing call (SpecSequence) *)

\* C27 as stated: when a routing call returns, every backend that failed
\* during the call is still unavailable and the cooldown its failure set is
\* still in force, so that the next routing call cannot get it from
\* get_available_apis (looked at before the shortest cooldown, 60 s, can
\* have run out).
C27_CooldownSurvivesTheCall ==
  pc = "done" =>
    \A b \in FailedApis :
      now < usage_stats[b].last_call_time + 60 =>
        /\ ~usage_stats[b].is_available
        /\ usage_stats[b].rate_limit_reset_time > now
        /\ b \notin SeqToSet(AvailableApis(usage_stats, api_key, now))

\* C27, amended: the cooldown survives the call unless the call itself runs
\* the emergency reset.  A step of the call that is not the emergency reset
\* leaves the cooldown end of every failed backend as its failure set it;
\* when a call that made no emergency reset returns, every backend that
\* failed in it has that cooldown end, later than the failure, and is
\* unavailable until then; and a following call started with
\* emergency_mode = true selects such a backend only once the cooldown is
\* over.
C27_CooldownSurvivesWithoutEmergencyReset ==
  /\ [][(pc \notin {"idle", "done"} /\ resets' = resets) =>
          \A b \in FailedApis :
            usage_stats'[b].rate_limit_reset_time = usage_stats[b].rate_limit_reset_time]_vars
  /\ []((pc = "done" /\ resets = 0) =>
          \A b \in FailedApis :
            /\ usage_stats[b].rate_limit_reset_time >= usage_stats[b].last_call_time + 60
            /\ now < usage_stats[b].rate_limit_reset_time =>
                 /\ ~usage_stats[b].is_available
                 /\ b \notin SeqToSet(AvailableApis(usage_stats, api_key, now)))
  /\ []((lastOp.op = "route_select" /\ at_start.emergency_mode
           /\ lastOp.api \in at_start.failed_before) =>
          now >= usage_stats[lastOp.api].rate_limit_reset_time)

\* a call started with emergency_mode = true has returned "All APIs
\* exhausted" without invoking the only backend, which failed in the call
\* before and is still in the cooldown of that failure
C27_Witness ==
  /\ pc = "done"
  /\ steps = 1
  /\ at_start.emergency_mode
  /\ at_start.failed_before # {}
  /\ at_start.failed_before \subseteq at_start.unavailable
  /\ invoked = <<>>
  /\ \A b \in at_start.failed_before :
       /\ ~usage_stats[b].is_available
       /\ now < usage_stats[b].rate_limit_reset_time

---------------------------------------------------------------------------
(* Invocations and cooldowns with routing calls in flight at once          *)
(* (SpecConcurrent)                                                        *)

\* C28: when the engine starts a provider call on a backend, that backend
\* is not in cooldown (marked unavailable with now before the end of the
\* cooldown), however the routing calls in flight are interleaved.
C28_NoInvocationDuringCooldown ==
  \A i \in 1..Len(invoked) : ~invoked[i].in_cooldown

---------------------------------------------------------------------------
(* Termination of a routing call and the number of its invocations         *)
(* (SpecRoute)                                                             *)

\* C29: a routing call terminates whatever the backends answer and whatever
\* max_retries is, and invokes at most as many backends as hold a
\* credential: every selection adds an untried credentialed backend to
\* tried_apis, also after a failure that consumed no retry slot, every step
\* of the call lowers the number of steps it can still make, and that
\* number is bounded by the number of credentialed backends.
C29_TerminatesWithinCredentialedBackends ==
  /\ [](/\ Len(invoked) <= Cardinality(Configured)
        /\ InvokedApis \subseteq Configured
        /\ tried_apis \subseteq Configured
        /\ StepsToReturn <= 4 * Cardinality(Configured) + 4)
  /\ [][lastOp'.op = "route_select" =>
          /\ tried_apis' # tried_apis
          /\ tried_apis \subseteq tried_apis'
          /\ Cardinality(tried_apis') = Cardinality(tried_apis) + 1]_vars
  /\ [][lastOp'.op \in RouteOps =>
          /\ StepsToReturn' < StepsToReturn
          /\ (lastOp'.op = "route_call" /\ ~lastOp'.ret /\ attempt_count' = attempt_count) =>
               /\ pc' = "loop"
               /\ Cardinality(Configured \ tried_apis') < Cardinality(Configured)]_vars

\* a call that invoked each of three credentialed backends once, every
\* failure being of the kind that consumes no retry slot, and returned
C29_Witness ==
  /\ pc = "done"
  /\ ~result.success
  /\ attempt_count = 0
  /\ max_retries = DefaultMaxRetries
  /\ Cardinality(Configured) = 3
  /\ Len(invoked) = 3

---------------------------------------------------------------------------
(* consecutive_failures under routing calls that do not overlap            *)
(* (SpecSequence)                                                          *)

\* C30: with routing calls made one after the other, consecutive_failures
\* of a backend never exceeds 1: a failure the engine records has a
\* non-empty message and leaves the backend unavailable, a backend that is
\* marked available has consecutive_failures = 0, and the category of
\* three consecutive failures (300 s) is never the one applied.
C30_SequentialCallsNeverRepeatFailures ==
  /\ \A b \in Backends :
       /\ usage_stats[b].consecutive_failures <= 1
       /\ usage_stats[b].is_available => usage_stats[b].consecutive_failures = 0
       /\ usage_stats[b].consecutive_failures = 1 => Truthy(usage_stats[b].last_error)
  /\ \A i \in 1..Len(invoked) : ~invoked[i].success => Truthy(invoked[i].error)
  /\ (lastOp.op = "route_call" /\ ~lastOp.ret) =>
       /\ ~usage_stats[lastOp.api].is_available
       /\ usage_stats[lastOp.api].consecutive_failures = 1
       /\ ErrorCategory(usage_stats[lastOp.api], lastOp.error) # "too_many_failures"

\* in the second of two routing calls a backend that failed in the first
\* call has been invoked again and has failed again
C30_Witness ==
  /\ steps = 1
  /\ lastOp.op = "route_call"
  /\ ~lastOp.ret
  /\ usage_stats[lastOp.api].failed_calls = 2
  /\ usage_stats[lastOp.api].successful_calls = 0
  /\ usage_stats[lastOp.api].consecutive_failures = 1
  /\ lastOp.api \in at_start.failed_before

====
